---- MODULE Spec2Model ----
(***************************************************************************)
(* Pose evaluation pipeline of Animator2D (src/utils.ts): driver           *)
(* evaluation, rotation constraints, forward kinematics, keyframe          *)
(* interpolation and animation sampling.                                   *)
(*                                                                         *)
(* Numbers.  A JavaScript number is modelled as a fixed-point integer      *)
(* counting multiples of 1/Unit, so Num(90) is 90 degrees and Num(1) \div 2*)
(* is one half.  Unit is divisible by the square of every keyframe         *)
(* distance the model uses, which makes every interpolation of the model   *)
(* exact.  A driver factor is a ratio [num, den].                          *)
(***************************************************************************)
EXTENDS Integers, Sequences, FiniteSets, TLC

VARIABLES
    bones,      \* the caller's bone array; its elements are the bone objects
    before,     \* the bone objects as they were when the last call started
    op,         \* the operation called last
    calls,      \* number of calls made on this bone array
    drvRet,     \* array returned by the last evaluateDrivers call
    fkRet,      \* DerivedBone[] returned by the last calculateFK call
    fkPrev,     \* <<DerivedBone[]>> of the calculateFK call right before it, or <<>>
    track,      \* the track argument of getInterpolatedValue: <<>> or <<track>>
    clip,       \* the clip argument of applyAnimation: <<>> or <<clip>>
    frame,      \* the frame argument
    interpRet,  \* result of getInterpolatedValue: <<>> (null) or <<number>>
    animRet,    \* the bones applyAnimation returned
    ik,         \* the solveIK call in progress: arguments, locals, position
    easeArg,    \* the argument of easeInOut: <<>> or <<ratio>>
    easeRet,    \* <<>> or <<easeInOut(t), easeInOut(1 - t)>>
    interpSite, \* the return statement getInterpolatedValue left by
    tl,         \* the timeline: keyframes of a track, selection, drag
    hist,       \* the undo history, its index and the pending file readers
    play        \* playback: current frame, loop range, clip duration

vars == <<bones, before, op, calls, drvRet, fkRet, fkPrev,
          track, clip, frame, interpRet, animRet, ik, easeArg, easeRet,
          interpSite, tl, hist, play>>

----------------------------------------------------------------------------
(* Numbers *)

Unit == 16 * 9 * 25

Num(n) == n * Unit

NULL == "null"

Range(s) == {s[i] : i \in DOMAIN s}

\* Array.prototype.find, given the set I of the matching positions of s:
\* <<>> when nothing matches, else <<the first match>>
FindFirst(s, I) ==
    IF I = {} THEN <<>>
    ELSE <<s[CHOOSE i \in I : \A j \in I : i <= j]>>

----------------------------------------------------------------------------
(* Trigonometry: cosine in fixed point, exact on the 15-degree grid of     *)
(* the table (rounded to 1/Unit) and linear between grid points.           *)

CosTable == <<3600, 3477, 3118, 2546, 1800, 932, 0>>

CosQ1(a) ==
    LET g == Num(15)
        k == a \div g
        r == a % g
    IN  IF r = 0 THEN CosTable[k + 1]
        ELSE CosTable[k + 1] + ((CosTable[k + 2] - CosTable[k + 1]) * r) \div g

Cos(a) ==
    LET m == a % Num(360)
    IN  IF m <= Num(90) THEN CosQ1(m)
        ELSE IF m <= Num(180) THEN -CosQ1(Num(180) - m)
        ELSE IF m <= Num(270) THEN -CosQ1(m - Num(180))
        ELSE CosQ1(Num(360) - m)

Sin(a) == Cos(a - Num(90))

\* a * b for two fixed-point numbers
Mul(a, b) == (a * b) \div Unit

----------------------------------------------------------------------------
(* evaluateDrivers *)

PropOf(b, p) ==
    IF p = "rotation" THEN b.rotation
    ELSE IF p = "x" THEN b.x
    ELSE IF p = "y" THEN b.y
    ELSE 0

\* ApplyDriver reading the driven property of the source bone
ApplyDriver_ReadsDriverProperty(bs, index, driver) ==
    LET src == FindFirst(bs, {j \in DOMAIN bs : bs[j].id = driver.sourceBoneId})
    IN  IF src = <<>> THEN bs
        ELSE
          LET inputVal  == PropOf(src[1], driver.driverProperty)
              outputVal == (inputVal * driver.factor.num) \div driver.factor.den
                           + driver.offset
              p == driver.driverProperty
          IN  IF p = "rotation" THEN [bs EXCEPT ![index].rotation = outputVal]
              ELSE IF p = "x" THEN [bs EXCEPT ![index].x = outputVal]
              ELSE IF p = "y" THEN [bs EXCEPT ![index].y = outputVal]
              ELSE bs

\* ApplyDriver reading 0 from a source bone that does not exist
ApplyDriver_MissingSourceReadsZero(bs, index, driver) ==
    LET src == FindFirst(bs, {j \in DOMAIN bs : bs[j].id = driver.sourceBoneId})
        inputVal  == IF src = <<>> THEN 0 ELSE PropOf(src[1], driver.sourceProperty)
        outputVal == (inputVal * driver.factor.num) \div driver.factor.den
                     + driver.offset
        p == driver.driverProperty
    IN  IF p = "rotation" THEN [bs EXCEPT ![index].rotation = outputVal]
        ELSE IF p = "x" THEN [bs EXCEPT ![index].x = outputVal]
        ELSE IF p = "y" THEN [bs EXCEPT ![index].y = outputVal]
        ELSE bs

\* one driver of the bone at position index (utils.ts 28-42)
ApplyDriver(bs, index, driver) ==
    LET src == FindFirst(bs, {j \in DOMAIN bs : bs[j].id = driver.sourceBoneId})
    IN  IF src = <<>> THEN bs
        ELSE
          LET inputVal  == PropOf(src[1], driver.sourceProperty)
              outputVal == (inputVal * driver.factor.num) \div driver.factor.den
                           + driver.offset
              p == driver.driverProperty
          IN  IF p = "rotation" THEN [bs EXCEPT ![index].rotation = outputVal]
              ELSE IF p = "x" THEN [bs EXCEPT ![index].x = outputVal]
              ELSE IF p = "y" THEN [bs EXCEPT ![index].y = outputVal]
              ELSE bs

RECURSIVE ApplyDrivers(_, _, _)
\* targetBone.drivers.forEach, from driver k on
ApplyDrivers(bs, index, k) ==
    IF k > Len(bs[index].drivers) THEN bs
    ELSE ApplyDrivers(ApplyDriver(bs, index, bs[index].drivers[k]), index, k + 1)

RECURSIVE DriverPass(_, _)
\* updatedBones.forEach, from bone index on
DriverPass(bs, index) ==
    IF index > Len(bs) THEN bs
    ELSE DriverPass(ApplyDrivers(bs, index, 1), index + 1)

\* evaluateDrivers with a single pass
evaluateDrivers_OnePass(bs) == DriverPass(bs, 1)

\* The returned array holds the objects of the input array, written in place.
evaluateDrivers(bs) == DriverPass(DriverPass(bs, 1), 1)

----------------------------------------------------------------------------
(* constrainRotation *)

RECURSIVE NormDown(_)
NormDown(v) == IF v > Num(180) THEN NormDown(v - Num(360)) ELSE v

RECURSIVE NormUp(_)
NormUp(v) == IF v < -Num(180) THEN NormUp(v + Num(360)) ELSE v

\* Normalize onto (-180, 180]
Normalize_HalfOpen(v) ==
    LET n == NormUp(NormDown(v))
    IN  IF n = -Num(180) THEN Num(180) ELSE n

Normalize(v) == NormUp(NormDown(v))

\* constrainRotation without the normalization loops
constrainRotation_NoNormalize(val, limit) ==
    IF limit.hasMin /\ val < limit.min THEN limit.min
    ELSE IF limit.hasMax /\ val > limit.max THEN limit.max
    ELSE val

\* limit carries hasMin/min and hasMax/max: a bound may be undefined
constrainRotation(val, limit) ==
    LET v == Normalize(val)
    IN  IF limit.hasMin /\ v < limit.min THEN limit.min
        ELSE IF limit.hasMax /\ v > limit.max THEN limit.max
        ELSE v

FindLimit(bone) ==
    FindFirst(bone.constraints,
              {j \in DOMAIN bone.constraints : bone.constraints[j].type = "LIMIT_ROTATION"})

\* EffectiveRotation normalizing every bone, limited or not
EffectiveRotation_AlwaysNormalize(bone) ==
    LET limit == FindLimit(bone)
    IN  IF limit = <<>> THEN Normalize(bone.rotation)
        ELSE constrainRotation(bone.rotation, limit[1])

\* EffectiveRotation clamping root bones only
EffectiveRotation_RootsOnly(bone) ==
    LET limit == FindLimit(bone)
    IN  IF limit = <<>> \/ bone.parentId # NULL THEN bone.rotation
        ELSE constrainRotation(bone.rotation, limit[1])

\* the local rotation processBone stores (utils.ts 70-78)
EffectiveRotation(bone) ==
    LET limit == FindLimit(bone)
    IN  IF limit = <<>> THEN bone.rotation
        ELSE constrainRotation(bone.rotation, limit[1])

----------------------------------------------------------------------------
(* calculateFK *)

\* DeriveBone starting every bone at its own (x, y) and its own rotation
DeriveBone_IgnoreParent(bone, parent) ==
    LET rot == EffectiveRotation(bone)
    IN  [id |-> bone.id, parentId |-> bone.parentId, length |-> bone.length,
         rotation |-> rot, x |-> bone.x, y |-> bone.y, locked |-> bone.locked,
         constraints |-> bone.constraints, drivers |-> bone.drivers,
         worldStart |-> [x |-> bone.x, y |-> bone.y],
         worldEnd   |-> [x |-> bone.x + Mul(Cos(rot), bone.length),
                         y |-> bone.y + Mul(Sin(rot), bone.length)],
         worldRotation |-> rot]

\* the DerivedBone of one bone; parent is <<>> or <<the parent's DerivedBone>>
DeriveBone(bone, parent) ==
    LET rot       == EffectiveRotation(bone)
        startX    == IF parent # <<>> THEN parent[1].worldEnd.x ELSE bone.x
        startY    == IF parent # <<>> THEN parent[1].worldEnd.y ELSE bone.y
        parentRot == IF parent # <<>> THEN parent[1].worldRotation ELSE 0
        worldRot  == parentRot + rot
    IN  [id |-> bone.id, parentId |-> bone.parentId, length |-> bone.length,
         rotation |-> rot, x |-> bone.x, y |-> bone.y, locked |-> bone.locked,
         constraints |-> bone.constraints, drivers |-> bone.drivers,
         worldStart |-> [x |-> startX, y |-> startY],
         worldEnd   |-> [x |-> startX + Mul(Cos(worldRot), bone.length),
                         y |-> startY + Mul(Sin(worldRot), bone.length)],
         worldRotation |-> worldRot]

RECURSIVE processBone(_, _, _)
RECURSIVE processEach(_, _, _, _)

\* processBone pushing the bone after its subtree
processBone_PostOrder(drivenBones, bone, parent) ==
    LET derivedBone == DeriveBone(bone, parent)
    IN  processEach(drivenBones, bone.id, <<derivedBone>>, 1) \o <<derivedBone>>

\* processBone looking for children behind the bone's own position only
processBone_ChildrenBehind(drivenBones, bone, parent) ==
    LET derivedBone == DeriveBone(bone, parent)
        own == CHOOSE j \in DOMAIN drivenBones : drivenBones[j].id = bone.id
    IN  <<derivedBone>> \o processEach(drivenBones, bone.id, <<derivedBone>>, own + 1)

\* the entries processBone(bone, parent) pushes onto result, in push order
processBone(drivenBones, bone, parent) ==
    LET derivedBone == DeriveBone(bone, parent)
    IN  <<derivedBone>> \o processEach(drivenBones, bone.id, <<derivedBone>>, 1)

\* drivenBones.filter(b => b.parentId === pid).forEach(...), from index i on
processEach(drivenBones, pid, parent, i) ==
    IF i > Len(drivenBones) THEN <<>>
    ELSE (IF drivenBones[i].parentId = pid
          THEN processBone(drivenBones, drivenBones[i], parent)
          ELSE <<>>)
         \o processEach(drivenBones, pid, parent, i + 1)

\* the result list, given the array evaluateDrivers returned
FKResult_OrphansAsRoots(drivenBones) ==
    processEach(drivenBones, NULL, <<>>, 1) \o processEach(drivenBones, "zz", <<>>, 1)

FKResult(drivenBones) == processEach(drivenBones, NULL, <<>>, 1)

calculateFK(bs) == FKResult(evaluateDrivers(bs))

----------------------------------------------------------------------------
(* Easing.  t is the ratio [n, d] with d > 0; the result is a ratio. *)

easeLinear(t) == t

easeIn(t) == [n |-> t.n * t.n, d |-> t.d * t.d]

easeOut(t) == [n |-> t.n * (2 * t.d - t.n), d |-> t.d * t.d]

\* easeInOut with the tail of easeOut
easeInOut_EaseOutTail(t) ==
    IF 2 * t.n < t.d
    THEN [n |-> 2 * t.n * t.n, d |-> t.d * t.d]
    ELSE [n |-> t.n * (2 * t.d - t.n), d |-> t.d * t.d]

easeInOut(t) ==
    IF 2 * t.n < t.d
    THEN [n |-> 2 * t.n * t.n, d |-> t.d * t.d]
    ELSE [n |-> (4 * t.d - 2 * t.n) * t.n - t.d * t.d, d |-> t.d * t.d]

getEasing(type, t) ==
    IF type = "ease-in" THEN easeIn(t)
    ELSE IF type = "ease-out" THEN easeOut(t)
    ELSE IF type = "ease-in-out" THEN easeInOut(t)
    ELSE easeLinear(t)

----------------------------------------------------------------------------
(* getInterpolatedValue *)

RECURSIVE InsertByTime(_, _)
\* k goes behind every key whose time is not greater: the sort is stable
InsertByTime(sorted, k) ==
    IF sorted = <<>> THEN <<k>>
    ELSE IF k.time < Head(sorted).time THEN <<k>> \o sorted
    ELSE <<Head(sorted)>> \o InsertByTime(Tail(sorted), k)

\* the keyframes left in array order
SortByTime_Unsorted(ks) == ks

RECURSIVE SortByTime(_)
\* [...keyframes].sort((a, b) => a.time - b.time)
SortByTime(ks) ==
    IF ks = <<>> THEN <<>>
    ELSE InsertByTime(SortByTime(SubSeq(ks, 1, Len(ks) - 1)), ks[Len(ks)])

\* Segment eased by the arrival keyframe
Segment_ArrivalEasing(k1, k2, frm) ==
    LET t == getEasing(k2.easing, [n |-> frm - k1.time, d |-> k2.time - k1.time])
    IN  k1.value + ((k2.value - k1.value) * t.n) \div t.d

\* k1.value + (k2.value - k1.value) * ease(t) for the segment k1 -> k2
Segment(k1, k2, frm) ==
    LET t == getEasing(k1.easing, [n |-> frm - k1.time, d |-> k2.time - k1.time])
    IN  k1.value + ((k2.value - k1.value) * t.n) \div t.d

\* getInterpolatedValue answering null for a track of a single keyframe
getInterpolatedValue_NullOnSingleKey(trk, frm) ==
    IF trk = <<>> \/ Len(trk[1].keyframes) <= 1 THEN <<>>
    ELSE
      LET keys == SortByTime(trk[1].keyframes)
          n    == Len(keys)
          hits == {i \in 1..(n - 1) : frm >= keys[i].time /\ frm < keys[i + 1].time}
      IN  IF frm <= keys[1].time THEN <<keys[1].value>>
          ELSE IF frm >= keys[n].time THEN <<keys[n].value>>
          ELSE IF hits # {}
               THEN LET i == CHOOSE h \in hits : \A g \in hits : h <= g
                    IN  <<Segment(keys[i], keys[i + 1], frm)>>
          ELSE <<keys[1].value>>

\* getInterpolatedValue with segments open at both ends
getInterpolatedValue_OpenSegments(trk, frm) ==
    IF trk = <<>> \/ Len(trk[1].keyframes) = 0 THEN <<>>
    ELSE
      LET keys == SortByTime(trk[1].keyframes)
          n    == Len(keys)
          hits == {i \in 1..(n - 1) : frm > keys[i].time /\ frm < keys[i + 1].time}
      IN  IF frm <= keys[1].time THEN <<keys[1].value>>
          ELSE IF frm >= keys[n].time THEN <<keys[n].value>>
          ELSE IF hits # {}
               THEN LET i == CHOOSE h \in hits : \A g \in hits : h <= g
                    IN  <<Segment(keys[i], keys[i + 1], frm)>>
          ELSE <<keys[1].value>>

\* the return statement the call leaves by, and for the return of line 196
\* the divisor k2.time - k1.time of line 194
ReturnSite(trk, frm) ==
    IF trk = <<>> \/ Len(trk[1].keyframes) = 0 THEN [ret |-> "null", den |-> 1]
    ELSE
      LET keys == SortByTime(trk[1].keyframes)
          n    == Len(keys)
          hits == {i \in 1..(n - 1) : frm >= keys[i].time /\ frm < keys[i + 1].time}
      IN  IF frm <= keys[1].time THEN [ret |-> "first", den |-> 1]
          ELSE IF frm >= keys[n].time THEN [ret |-> "last", den |-> 1]
          ELSE IF hits # {}
               THEN LET i == CHOOSE h \in hits : \A g \in hits : h <= g
                    IN  [ret |-> "segment", den |-> keys[i + 1].time - keys[i].time]
          ELSE [ret |-> "fallback", den |-> 1]

\* trk is <<>> (no track) or <<the track>>; the result is <<>> (null)
\* or <<the number>>
getInterpolatedValue(trk, frm) ==
    IF trk = <<>> \/ Len(trk[1].keyframes) = 0 THEN <<>>
    ELSE
      LET keys == SortByTime(trk[1].keyframes)
          n    == Len(keys)
          hits == {i \in 1..(n - 1) : frm >= keys[i].time /\ frm < keys[i + 1].time}
      IN  IF frm <= keys[1].time THEN <<keys[1].value>>
          ELSE IF frm >= keys[n].time THEN <<keys[n].value>>
          ELSE IF hits # {}
               THEN LET i == CHOOSE h \in hits : \A g \in hits : h <= g
                    IN  <<Segment(keys[i], keys[i + 1], frm)>>
          ELSE <<keys[1].value>>

----------------------------------------------------------------------------
(* applyAnimation *)

FindTrack(c, boneId, prop) ==
    FindFirst(c.tracks, {j \in DOMAIN c.tracks :
                            c.tracks[j].boneId = boneId /\ c.tracks[j].property = prop})

\* a property of the cloned bone after sampling its track (utils.ts 209-214)
Sampled(c, bone, prop, frm) ==
    LET val == getInterpolatedValue(FindTrack(c, bone.id, prop), frm)
    IN  IF val # <<>> THEN val[1] ELSE PropOf(bone, prop)

SampleBone(c, bone, frm) ==
    [bone EXCEPT !.rotation = Sampled(c, bone, "rotation", frm),
                 !.x = Sampled(c, bone, "x", frm),
                 !.y = Sampled(c, bone, "y", frm)]

\* clp is <<>> (no clip, or a clip without a track list) or <<the clip>>.
\* The clones are the objects calculateFK works on and writes.
applyAnimation(bs, clp, frm) ==
    IF clp = <<>> THEN bs
    ELSE
      LET sampled  == [i \in DOMAIN bs |-> SampleBone(clp[1], bs[i], frm)]
          newBones == evaluateDrivers(sampled)
          derived  == FKResult(newBones)
      IN  [i \in DOMAIN bs |->
             LET b == newBones[i]
                 d == FindFirst(derived, {j \in DOMAIN derived : derived[j].id = b.id})
             IN  IF d # <<>>
                 THEN [b EXCEPT !.rotation = d[1].rotation,
                                !.x = d[1].x, !.y = d[1].y]
                 ELSE b]

----------------------------------------------------------------------------
(* Values of the types of src/vite.config.ts *)

Bone(id, parentId, length, rotation, x, y, constraints, drivers) ==
    [id |-> id, parentId |-> parentId, length |-> length,
     rotation |-> rotation, x |-> x, y |-> y, locked |-> FALSE,
     constraints |-> constraints, drivers |-> drivers]

\* the bone with its lock set (locked?: boolean, absent reads as false)
Locked(bone) == [bone EXCEPT !.locked = TRUE]

\* LIMIT_ROTATION with both bounds set
Limit(min, max) ==
    [type |-> "LIMIT_ROTATION", hasMin |-> TRUE, min |-> Num(min),
     hasMax |-> TRUE, max |-> Num(max)]

LimitMaxOnly(max) == [Limit(0, max) EXCEPT !.hasMin = FALSE]

LimitMinOnly(min) == [Limit(min, 0) EXCEPT !.hasMax = FALSE]

IkPole == [Limit(0, 0) EXCEPT !.type = "IK_POLE"]

\* LIMIT_ROTATION with neither bound set (min?: number, max?: number)
LimitUnbounded == [Limit(0, 0) EXCEPT !.hasMin = FALSE, !.hasMax = FALSE]

Driver(driverProperty, sourceBoneId, sourceProperty, num, den, offset) ==
    [driverProperty |-> driverProperty, sourceBoneId |-> sourceBoneId,
     sourceProperty |-> sourceProperty, factor |-> [num |-> num, den |-> den],
     offset |-> Num(offset)]

Keyframe(time, value, easing) == [time |-> time, value |-> value, easing |-> easing]

Track(boneId, property, keyframes) ==
    [boneId |-> boneId, property |-> property, keyframes |-> keyframes]

----------------------------------------------------------------------------
(* solveIK *)

\* the cap of the chain walk: while (currentId && depth < 4)
ChainCap == 4

\* const iterations = 10
Iterations == 10

\* the falsy ids that end the chain walk
Falsy(id) == id = NULL \/ id = ""

\* the chain of ids, effector first: each id is pushed before it is looked
\* up, so a dangling parent id is in the chain
RECURSIVE BuildChain(_, _, _)
RECURSIVE BuildChain_CapFive(_, _, _)
BuildChain_CapFive(bs, currentId, depth) ==
    IF Falsy(currentId) \/ depth >= ChainCap + 1 THEN <<>>
    ELSE LET b == FindFirst(bs, {j \in DOMAIN bs : bs[j].id = currentId})
         IN  <<currentId>> \o
             BuildChain_CapFive(bs, IF b # <<>> THEN b[1].parentId ELSE NULL, depth + 1)

BuildChain(bs, currentId, depth) ==
    IF Falsy(currentId) \/ depth >= ChainCap THEN <<>>
    ELSE LET b == FindFirst(bs, {j \in DOMAIN bs : bs[j].id = currentId})
         IN  <<currentId>> \o
             BuildChain(bs, IF b # <<>> THEN b[1].parentId ELSE NULL, depth + 1)

\* the directions Math.atan2 is resolved to: the grid of CosTable, (-180, 180]
AtanGrid == {Num(15 * k) : k \in -11..12}

\* Math.atan2(y, x) in degrees: the grid direction closest to (x, y), the
\* lower one on a tie, and 0 for the zero vector
Atan2(y, x) ==
    IF x = 0 /\ y = 0 THEN 0
    ELSE LET dot(a) == Cos(a) * x + Sin(a) * y
             best == {a \in AtanGrid : \A c \in AtanGrid : dot(c) <= dot(a)}
         IN  CHOOSE a \in best : \A c \in best : a <= c

\* radToDeg(angTarget - angEffector) wrapped once into [-180, 180]
AngleDiff(effectorPos, originPos, target) ==
    LET angEffector == Atan2(effectorPos.y - originPos.y, effectorPos.x - originPos.x)
        angTarget   == Atan2(target.y - originPos.y, target.x - originPos.x)
        d  == angTarget - angEffector
        d1 == IF d > Num(180) THEN d - Num(360) ELSE d
    IN  IF d1 < Num(-180) THEN d1 + Num(360) ELSE d1

\* the rotation written for the chain bone b
NewRot(b, angleDiff) ==
    LET newRot == b.rotation + angleDiff
        limit  == FindLimit(b)
    IN  IF limit # <<>> THEN constrainRotation(newRot, limit[1]) ELSE newRot

\* the indices the map of one adjustment replaces by a new object
Adjusted_AlsoChildren(bs, boneId) ==
    {j \in DOMAIN bs : (bs[j].id = boneId \/ bs[j].parentId = boneId) /\ ~bs[j].locked}

Adjusted(bs, boneId) == {j \in DOMAIN bs : bs[j].id = boneId /\ ~bs[j].locked}

\* IKStep turning the chain bone although effector or bone was not derived
IKStep_NoSkip(newBones, boneId, effectorId, target) ==
    LET driven == evaluateDrivers(newBones)
        hit    == Adjusted(driven, boneId)
        origin == [x |-> 0, y |-> 0]
        angleDiff == AngleDiff([x |-> Num(1), y |-> 0], origin, target)
    IN  [newBones |->
           [j \in DOMAIN driven |->
              IF j \in hit
              THEN [driven[j] EXCEPT !.rotation = NewRot(driven[j], angleDiff)]
              ELSE driven[j]],
         driven |-> driven,
         hit |-> hit]

\* one pass of the inner loop body for boneId on the working array newBones:
\* calculateFK writes the driven values into the objects of newBones, then
\* the bone is turned by the angle between effector and target as seen from
\* its world start.  hit is the set of replaced indices.
IKStep(newBones, boneId, effectorId, target) ==
    LET driven   == evaluateDrivers(newBones)
        derived  == FKResult(driven)
        effector == FindFirst(derived, {j \in DOMAIN derived : derived[j].id = effectorId})
        currentDerived ==
            FindFirst(derived, {j \in DOMAIN derived : derived[j].id = boneId})
    IN  IF effector = <<>> \/ currentDerived = <<>>
        THEN [driven |-> driven, newBones |-> driven, hit |-> {}]
        ELSE LET angleDiff == AngleDiff(effector[1].worldEnd,
                                        currentDerived[1].worldStart, target)
                 hit == Adjusted(driven, boneId)
             IN  [newBones |->
                    [j \in DOMAIN driven |->
                       IF j \in hit
                       THEN [driven[j] EXCEPT !.rotation = NewRot(driven[j], angleDiff)]
                       ELSE driven[j]],
                  driven |-> driven,
                  hit |-> hit]

\* the bone objects of the caller after a callee wrote the array written,
\* whose elements at the indices in shared are the caller's own objects
CallerBones(bs, shared, written) ==
    [j \in DOMAIN bs |-> IF j \in shared THEN written[j] ELSE bs[j]]

\* no solveIK call in progress
IkIdle == [pc |-> "idle"]

InitIdle ==
    /\ ik = IkIdle
    /\ easeArg = <<>>
    /\ easeRet = <<>>

\* no call of getInterpolatedValue yet, no editor mounted
InitEditorIdle ==
    /\ interpSite = ""
    /\ tl = <<>>
    /\ hist = <<>>
    /\ play = <<>>

----------------------------------------------------------------------------
(* Bounds and input sets *)

MaxCalls == 2

BoneIds == <<"b1", "b2", "b3">>

\* parentId of b1, b2, b3: chain, siblings, two roots, child before its
\* parent, dangling parent with a subtree, two-bone cycle, no root at all
Topologies ==
    { <<NULL, "b1", "b2">>, <<NULL, "b1", "b1">>, <<NULL, NULL, "b2">>,
      <<"b2", NULL, "b2">>, <<NULL, "zz", "b2">>, <<NULL, "b3", "b2">>,
      <<"b3", "b1", "b2">> }

FKRotations == {Num(0), Num(90), Num(200), Num(-540)}

FKLengths == { <<Num(10), Num(5), Num(0)>>, <<Num(0), Num(10), Num(5)>> }

BoneX == <<Num(0), Num(3), Num(-2)>>

BoneY == <<Num(0), Num(4), Num(1)>>

NoLists == [i \in 1..3 |-> <<>>]

Only(i, list) == [NoLists EXCEPT ![i] = list]

ConstraintLists ==
    { <<Limit(-10, 130)>>, <<LimitMaxOnly(90)>>, <<IkPole, LimitMinOnly(0)>>,
      <<Limit(-10, 130), Limit(0, 50)>> }

ConstraintConfigs == {NoLists} \cup {Only(i, l) : i \in 1..3, l \in ConstraintLists}

FKDriverConfigs ==
    { NoLists,
      Only(2, <<Driver("rotation", "b1", "rotation", 1, 2, 10)>>),
      Only(3, <<Driver("rotation", "b3", "x", 1, 1, 0),
                Driver("x", "b3", "y", 1, 1, 0),
                Driver("y", "b2", "x", 1, 1, 0)>>) }

MakeRig(parents, rots, lens, cons, drvs) ==
    [i \in 1..3 |-> Bone(BoneIds[i], parents[i], lens[i], rots[i],
                         BoneX[i], BoneY[i], cons[i], drvs[i])]

FKRigs ==
    { MakeRig(p, <<r1, r2, r3>>, l, c, d) :
        p \in Topologies, r1 \in FKRotations, r2 \in FKRotations,
        r3 \in {Num(0), Num(90)}, l \in FKLengths,
        c \in ConstraintConfigs, d \in FKDriverConfigs }

----------------------------------------------------------------------------
(* Calls *)

InitCommon ==
    /\ before = <<>>
    /\ op = "init"
    /\ calls = 0
    /\ drvRet = <<>>
    /\ fkRet = <<>>
    /\ fkPrev = <<>>
    /\ interpRet = <<>>
    /\ animRet = <<>>

\* evaluateDrivers(bones): [...bones] copies the array and not the bone
\* objects, so the writes of lines 39-41 land in the caller's objects.
CallEvaluateDrivers ==
    /\ calls < MaxCalls
    /\ before' = bones
    /\ bones' = evaluateDrivers(bones)
    /\ drvRet' = bones'
    /\ op' = "evaluateDrivers"
    /\ calls' = calls + 1
    /\ UNCHANGED <<fkRet, fkPrev, track, clip, frame, interpRet, animRet, ik, easeArg, easeRet,
                   interpSite, tl, hist, play>>

\* calculateFK(bones): its evaluateDrivers call writes the caller's objects.
CallCalculateFK ==
    /\ calls < MaxCalls
    /\ before' = bones
    /\ bones' = evaluateDrivers(bones)
    /\ fkRet' = FKResult(bones')
    /\ fkPrev' = IF op = "calculateFK" THEN <<fkRet>> ELSE <<>>
    /\ op' = "calculateFK"
    /\ calls' = calls + 1
    /\ UNCHANGED <<drvRet, track, clip, frame, interpRet, animRet, ik, easeArg, easeRet,
                   interpSite, tl, hist, play>>

\* raw rotations on and next to the ends of the normalized range
EdgeRotations ==
    {Num(-180), Num(180), Num(-540), Num(540), Num(-181), Num(181), Num(-179), Num(-900)}

\* a chain whose root or middle bone has a limit that cuts nothing
FKEdgeRigs ==
    { MakeRig(<<NULL, "b1", "b2">>, <<IF i = 1 THEN r ELSE Num(0),
                                      IF i = 2 THEN r ELSE Num(90), Num(0)>>,
              <<Num(10), Num(5), Num(0)>>, Only(i, <<LimitUnbounded>>), NoLists) :
        r \in EdgeRotations, i \in {1, 2} }

InitFK ==
    /\ bones \in FKRigs \cup FKEdgeRigs
    /\ track = <<>>
    /\ clip = <<>>
    /\ frame = 0
    /\ InitCommon
    /\ InitEditorIdle
    /\ InitIdle

NextFK == CallCalculateFK \/ CallEvaluateDrivers

SpecFK == InitFK /\ [][NextFK]_vars

----------------------------------------------------------------------------
(* Claims on calculateFK *)

Entry(list, id) == FindFirst(list, {j \in DOMAIN list : list[j].id = id})

Point(x, y) == [x |-> x, y |-> y]

\* the spec's two-bone example: root b1 at (0,0), rotation 0, length 10,
\* child b2 with rotation 90 and length 5, neither constrained nor driven
IsExampleRig(bs) ==
    /\ bs[1].parentId = NULL /\ bs[1].rotation = 0 /\ bs[1].length = Num(10)
    /\ bs[1].x = 0 /\ bs[1].y = 0
    /\ bs[2].parentId = "b1" /\ bs[2].rotation = Num(90) /\ bs[2].length = Num(5)
    /\ \A i \in 1..2 : bs[i].constraints = <<>> /\ bs[i].drivers = <<>>

\* C1: every entry of calculateFK's output starts at its parent's worldEnd
\* (a root at its own (x, y)), has worldRotation = the parent's worldRotation
\* (0 for a root) + its stored local rotation, which is the clamped rotation
\* of the bone, and ends at worldStart + length * (cos, sin)(worldRotation);
\* a bone of length 0 ends where it starts; the example rig gives the child
\* worldStart (10,0), worldRotation 90, worldEnd (10,5).
C1_FKComposition ==
    op = "calculateFK" =>
      /\ \A k \in DOMAIN fkRet :
           LET d == fkRet[k]
               b == Entry(bones, d.id)
               p == Entry(fkRet, d.parentId)
           IN  /\ b # <<>>
               /\ d.rotation = EffectiveRotation(b[1])
               /\ d.parentId = NULL =>
                    /\ d.worldStart = Point(b[1].x, b[1].y)
                    /\ d.worldRotation = d.rotation
               /\ d.parentId # NULL =>
                    /\ p # <<>>
                    /\ d.worldStart = p[1].worldEnd
                    /\ d.worldRotation = p[1].worldRotation + d.rotation
               /\ d.worldEnd.x = d.worldStart.x + Mul(Cos(d.worldRotation), d.length)
               /\ d.worldEnd.y = d.worldStart.y + Mul(Sin(d.worldRotation), d.length)
               /\ d.length = 0 => d.worldEnd = d.worldStart
      /\ IsExampleRig(bones) =>
           LET c == Entry(fkRet, "b2")
           IN  /\ c # <<>>
               /\ c[1].worldStart = Point(Num(10), 0)
               /\ c[1].worldRotation = Num(90)
               /\ c[1].worldEnd = Point(Num(10), Num(5))

\* the example rig has been evaluated, with a zero-length bone under the child
C1_Witness ==
    /\ op = "calculateFK"
    /\ IsExampleRig(bones)
    /\ \E k \in DOMAIN fkRet :
         /\ fkRet[k].id = "b3" /\ fkRet[k].parentId = "b2" /\ fkRet[k].length = 0
         /\ fkRet[k].worldStart = Point(Num(10), Num(5))

\* raw reduced by whole turns: into (-180, 180] from above, into [-180, 180)
\* from below, untouched inside [-180, 180]
WholeTurns(raw) ==
    IF raw > Num(180) THEN ((raw + Num(180) - 1) % Num(360)) - Num(180) + 1
    ELSE IF raw < -Num(180) THEN ((raw + Num(180)) % Num(360)) - Num(180)
    ELSE raw

\* C2: for a bone whose first LIMIT_ROTATION constraint is lim, the derived
\* local rotation is the raw rotation reduced by whole turns, replaced by
\* lim.min when below it, else by lim.max when above it; with both bounds
\* set and min <= max it lies in [min, max]; LIMIT_ROTATION{-10, 130} with
\* raw rotation 200 yields -10.
C2_RotationClamp ==
    op = "calculateFK" =>
      \A k \in DOMAIN fkRet :
        LET d   == fkRet[k]
            raw == Entry(bones, d.id)[1].rotation
            lim == FindLimit(d)
            n   == WholeTurns(raw)
        IN  lim # <<>> =>
              /\ d.rotation = IF lim[1].hasMin /\ n < lim[1].min THEN lim[1].min
                              ELSE IF lim[1].hasMax /\ n > lim[1].max THEN lim[1].max
                              ELSE n
              /\ (lim[1].hasMin /\ lim[1].hasMax /\ lim[1].min <= lim[1].max) =>
                    (lim[1].min <= d.rotation /\ d.rotation <= lim[1].max)
              /\ (lim[1] = Limit(-10, 130) /\ raw = Num(200)) => d.rotation = Num(-10)

\* a bone limited to [-10, 130] with raw rotation 200 was derived as -10
C2_Witness ==
    /\ op = "calculateFK"
    /\ \E k \in DOMAIN fkRet :
         /\ FindLimit(fkRet[k]) = <<Limit(-10, 130)>>
         /\ Entry(bones, fkRet[k].id)[1].rotation = Num(200)
         /\ fkRet[k].rotation = Num(-10)

\* C3: two calculateFK calls in a row on the same bone array return the
\* same derived bones.
C3_FKDeterministic ==
    (op = "calculateFK" /\ fkPrev # <<>>) => fkRet = fkPrev[1]

----------------------------------------------------------------------------
(* evaluateDrivers on rigs of driven bones *)

DrvSources == {"b1", "b2", "b3", "zz"}

\* <<driverProperty, sourceProperty>>
DrvProperties == { <<"rotation", "rotation">>, <<"x", "rotation">>, <<"rotation", "y">> }

\* <<num, den, offset>>: 0.5 * v + 10 and -v
DrvLaws == { <<1, 2, 10>>, <<-1, 1, 0>> }

DrvSingles ==
    { <<Driver(p[1], s, p[2], l[1], l[2], l[3])>> :
        p \in DrvProperties, s \in DrvSources, l \in DrvLaws }

DrvLists ==
    {<<>>} \cup DrvSingles \cup
    { <<Driver("rotation", "b1", "rotation", 1, 2, 10), Driver("x", "zz", "x", 1, 1, 0)>>,
      <<Driver("y", "b2", "x", 2, 1, 0), Driver("rotation", "b3", "y", 1, 1, 0)>> }

DrvRotations == { <<Num(20), Num(-30), Num(45)>>, <<Num(0), Num(20), Num(20)>> }

DrvRigs ==
    { MakeRig(<<NULL, "b1", "b2">>, r, <<Num(10), Num(5), Num(0)>>, NoLists,
              <<d1, d2, d3>>) :
        r \in DrvRotations, d1 \in DrvLists, d2 \in DrvLists, d3 \in DrvLists }

\* rigs with a locked b2, driven or not, and a locked source bone b1
DrvLockedRigs ==
    { [MakeRig(<<NULL, "b1", "b2">>, r, <<Num(10), Num(5), Num(0)>>, NoLists,
               <<<<>>, d2, <<>>>>) EXCEPT ![i] = Locked(@)] :
        r \in DrvRotations, d2 \in DrvLists, i \in {1, 2} }

InitDrv ==
    /\ bones \in DrvRigs \cup DrvLockedRigs
    /\ track = <<>>
    /\ clip = <<>>
    /\ frame = 0
    /\ InitCommon
    /\ InitEditorIdle
    /\ InitIdle

NextDrv == CallEvaluateDrivers

SpecDrv == InitDrv /\ [][NextDrv]_vars

SameTransform(a, b) == a.rotation = b.rotation /\ a.x = b.x /\ a.y = b.y

\* C4: evaluateDrivers leaves the rotation, x and y of every bone object of
\* its input array as they were before the call.
C4_DriversPure ==
    op = "evaluateDrivers" => \A i \in DOMAIN bones : SameTransform(bones[i], before[i])

\* C5: after evaluateDrivers, a bone with a single driver whose source bone
\* exists and has no drivers holds source[sourceProperty] * factor + offset
\* in the targeted property and its input values in the other two; source
\* rotation 20 with factor 0.5 and offset 10 gives rotation 20.
C5_DriverAffine ==
    op = "evaluateDrivers" =>
      \A i \in DOMAIN drvRet :
        LET t == before[i]
            s == Entry(before, t.drivers[1].sourceBoneId)
            d == t.drivers[1]
            v == (PropOf(s[1], d.sourceProperty) * d.factor.num) \div d.factor.den
                 + d.offset
        IN  (Len(t.drivers) = 1 /\ s # <<>> /\ s[1].drivers = <<>>) =>
              /\ PropOf(drvRet[i], d.driverProperty) = v
              /\ \A p \in {"rotation", "x", "y"} \ {d.driverProperty} :
                   PropOf(drvRet[i], p) = PropOf(t, p)
              /\ (d = Driver("rotation", s[1].id, "rotation", 1, 2, 10)
                  /\ s[1].rotation = Num(20)) => drvRet[i].rotation = Num(20)

\* b2, at rotation -30, driven by the undriven b1 at rotation 20 with factor
\* 0.5 and offset 10, came out at rotation 20
C5_Witness ==
    /\ op = "evaluateDrivers"
    /\ before[1].drivers = <<>> /\ before[1].rotation = Num(20)
    /\ before[2].drivers = <<Driver("rotation", "b1", "rotation", 1, 2, 10)>>
    /\ before[2].rotation = Num(-30)
    /\ drvRet[2].rotation = Num(20)

----------------------------------------------------------------------------
(* getInterpolatedValue on bounded tracks *)

MaxKeys == 3

MaxFrame == 15

KeyTimes == {0, 5, 10}

Easings == {"linear", "ease-in", "ease-out", "ease-in-out", "bezier"}

Frames == (-5)..MaxFrame

\* the value of the keyframe at array position i: 10, 20, -40, 40, ...
KeyValue(i) == IF i % 3 = 0 THEN Num(-40) ELSE Num(10 * i)

KeySeqs ==
    UNION { { [i \in 1..n |-> Keyframe(f[i][1], KeyValue(i), f[i][2])] :
                f \in [1..n -> KeyTimes \X Easings] } : n \in 0..MaxKeys }

InterpTracks == {<<>>} \cup { <<Track("b1", "rotation", ks)>> : ks \in KeySeqs }

CallGetInterpolatedValue ==
    /\ op = "init"
    /\ interpRet' = getInterpolatedValue(track, frame)
    /\ interpSite' = ReturnSite(track, frame)
    /\ op' = "getInterpolatedValue"
    /\ calls' = calls + 1
    /\ UNCHANGED <<bones, before, drvRet, fkRet, fkPrev, track, clip, frame, animRet,
                   ik, easeArg, easeRet, tl, hist, play>>

InitInterp ==
    /\ bones = <<>>
    /\ track \in InterpTracks
    /\ clip = <<>>
    /\ frame \in Frames
    /\ InitCommon
    /\ InitEditorIdle
    /\ InitIdle

NextInterp == CallGetInterpolatedValue

SpecInterp == InitInterp /\ [][NextInterp]_vars

HasKeys(trk) == trk # <<>> /\ trk[1].keyframes # <<>>

KeysOf(trk) == Range(trk[1].keyframes)

DistinctTimes(trk) ==
    \A i, j \in DOMAIN trk[1].keyframes :
        trk[1].keyframes[i].time = trk[1].keyframes[j].time => i = j

\* C6: for a track with keyframes, a frame at or before the earliest
\* keyframe time yields the value of a keyframe of that time and a frame at
\* or after the latest keyframe time the value of a keyframe of that time,
\* whatever the easings and the array order; keys (0,10),(10,20) give 10 at
\* frame -5 and 20 at frame 15.
C6_InterpBoundary ==
    (op = "getInterpolatedValue" /\ HasKeys(track)) =>
      LET ks == KeysOf(track)
      IN  /\ (\A k \in ks : frame <= k.time) =>
                \E k \in ks : (\A o \in ks : k.time <= o.time) /\ interpRet = <<k.value>>
          /\ (\A k \in ks : frame >= k.time) =>
                \E k \in ks : (\A o \in ks : k.time >= o.time) /\ interpRet = <<k.value>>
          /\ (\E e1, e2 \in Easings, a, b \in 1..2 :
                /\ a # b /\ Len(track[1].keyframes) = 2
                /\ track[1].keyframes[a] = Keyframe(0, Num(10), e1)
                /\ track[1].keyframes[b] = Keyframe(10, Num(20), e2)) =>
                /\ frame = -5 => interpRet = <<Num(10)>>
                /\ frame = 15 => interpRet = <<Num(20)>>

\* a track stored latest-key-first was sampled after its last keyframe
C6_Witness ==
    /\ op = "getInterpolatedValue"
    /\ HasKeys(track)
    /\ Len(track[1].keyframes) = 3
    /\ track[1].keyframes[1].time = 10 /\ track[1].keyframes[2].time = 0
    /\ track[1].keyframes[3].time = 5
    /\ track[1].keyframes[2].easing = "ease-in"
    /\ frame = 15
    /\ interpRet = <<Num(10)>>

\* r = v1 + dv * ease(n / d), stated without division
OnCurve(easing, r, v1, dv, n, d) ==
    IF easing = "ease-in" THEN (r - v1) * d * d = dv * n * n
    ELSE IF easing = "ease-out" THEN (r - v1) * d * d = dv * n * (2 * d - n)
    ELSE IF easing = "ease-in-out"
         THEN IF 2 * n < d THEN (r - v1) * d * d = dv * 2 * n * n
              ELSE (r - v1) * d * d = dv * ((4 * d - 2 * n) * n - d * d)
    ELSE (r - v1) * d = dv * n

\* C7: in a track of pairwise distinct keyframe times, for consecutive
\* keyframes k1, k2 with k1.time <= frame < k2.time the result is
\* k1.value + (k2.value - k1.value) * ease(t), t = (frame - k1.time) /
\* (k2.time - k1.time), ease being k1's law: t, t^2, t(2 - t), and t for
\* 'bezier'; keys (0,10),(10,20) linear give 15 at frame 5.
C7_InterpSegment ==
    (op = "getInterpolatedValue" /\ HasKeys(track) /\ DistinctTimes(track)) =>
      /\ \A k1, k2 \in KeysOf(track) :
           ( /\ k1.time <= frame /\ frame < k2.time
             /\ ~ \E k \in KeysOf(track) : k1.time < k.time /\ k.time < k2.time ) =>
               /\ interpRet # <<>>
               /\ OnCurve(k1.easing, interpRet[1], k1.value, k2.value - k1.value,
                          frame - k1.time, k2.time - k1.time)
      /\ (track[1].keyframes = <<Keyframe(0, Num(10), "linear"),
                                 Keyframe(10, Num(20), "ease-in")>> /\ frame = 5)
            => interpRet = <<Num(15)>>

\* a segment leaving an ease-in key towards an ease-out key was sampled
\* strictly inside: 20 + (10 - 20) * (3/5)^2
C7_Witness ==
    /\ op = "getInterpolatedValue"
    /\ track = <<Track("b1", "rotation",
                       <<Keyframe(10, Num(10), "ease-out"), Keyframe(5, Num(20), "ease-in")>>)>>
    /\ frame = 8
    /\ interpRet = <<Num(20) - (Num(10) * 9) \div 25>>

\* C8: getInterpolatedValue returns null exactly when the track is missing
\* or has no keyframes; otherwise it returns a number.
C8_InterpNull ==
    op = "getInterpolatedValue" =>
      /\ (interpRet = <<>>) <=> ~HasKeys(track)
      /\ HasKeys(track) => (Len(interpRet) = 1 /\ interpRet[1] \in Int)

\* both outcomes: a keyed track sampled between keys, and an empty track
C8_Witness ==
    /\ op = "getInterpolatedValue"
    /\ \/ (track # <<>> /\ track[1].keyframes = <<>> /\ interpRet = <<>>)
       \/ (HasKeys(track) /\ frame = 7 /\ interpRet # <<>>)

----------------------------------------------------------------------------
(* applyAnimation on bounded rigs and clips *)

AnimTopologies == { <<NULL, "b1", "b2">>, <<"b2", NULL, "b2">>, <<NULL, "zz", "b2">> }

AnimRotations == { <<Num(0), Num(200), Num(-30)>>, <<Num(90), Num(-540), Num(20)>> }

AnimConstraintConfigs ==
    {NoLists} \cup
    {Only(i, l) : i \in 1..3, l \in { <<Limit(-10, 130)>>, <<IkPole, Limit(0, 50)>> }}

AnimRigs ==
    { MakeRig(p, r, <<Num(10), Num(5), Num(0)>>, c, d) :
        p \in AnimTopologies, r \in AnimRotations,
        c \in AnimConstraintConfigs, d \in FKDriverConfigs }

\* keyframes of a rotation track; <<>> is a track without keyframes
RotKeySeqs ==
    { <<>>,
      <<Keyframe(0, Num(270), "linear"), Keyframe(10, Num(-100), "ease-in")>>,
      <<Keyframe(10, Num(400), "ease-out"), Keyframe(0, Num(-200), "ease-in-out"),
        Keyframe(5, Num(45), "bezier")>> }

\* <<>> (the bone has no rotation track) or <<its rotation track>>
RotTrackOptions(id) == {<<>>} \cup { <<Track(id, "rotation", ks)>> : ks \in RotKeySeqs }

\* tracks on the position of b1, the second rotation track of b2 shadowed by
\* any first one, and a sprite-swap track
ExtraTrackLists ==
    { <<>>,
      <<Track("b1", "x", <<Keyframe(0, Num(7), "linear"), Keyframe(10, Num(17), "linear")>>),
        Track("b1", "y", <<>>),
        Track("b2", "rotation", <<Keyframe(5, Num(60), "linear")>>),
        Track("b3", "variant", <<Keyframe(0, 1, "linear")>>)>> }

AnimClips ==
    { <<[duration |-> 10, tracks |-> t1 \o t2 \o t3 \o extra]>> :
        t1 \in RotTrackOptions("b1"), t2 \in RotTrackOptions("b2"),
        t3 \in RotTrackOptions("b3"), extra \in ExtraTrackLists }

AnimFrames == {0, 3, 5, 8, 12}

\* the indices at which applyAnimation's newBones holds the caller's own
\* object: none, { ...bone } makes a new object for every bone
SampledInPlace_All(bs) == DOMAIN bs

SampledInPlace(bs) == {}

\* newBones after line 219: sampled, then written by calculateFK's drivers
AnimatedBones(bs, clp, frm) ==
    IF clp = <<>> THEN bs
    ELSE evaluateDrivers([i \in DOMAIN bs |-> SampleBone(clp[1], bs[i], frm)])

\* applyAnimation(bones, sprites, clip, frame): every write goes to newBones,
\* the caller's objects are those of newBones that were not cloned.
CallApplyAnimation ==
    /\ op = "init"
    /\ before' = bones
    /\ animRet' = applyAnimation(bones, clip, frame)
    /\ bones' = CallerBones(bones, SampledInPlace(bones),
                            AnimatedBones(bones, clip, frame))
    /\ op' = "applyAnimation"
    /\ calls' = calls + 1
    /\ UNCHANGED <<drvRet, fkRet, fkPrev, track, clip, frame, interpRet, ik, easeArg, easeRet,
                   interpSite, tl, hist, play>>

InitAnim ==
    /\ bones \in AnimRigs
    /\ track = <<>>
    /\ clip \in AnimClips
    /\ frame \in AnimFrames
    /\ InitCommon
    /\ InitEditorIdle
    /\ InitIdle

NextAnim == CallApplyAnimation

SpecAnim == InitAnim /\ [][NextAnim]_vars

\* the tracks of the clip for (id, prop), in clip order
Matching(id, prop) ==
    SelectSeq(clip[1].tracks, LAMBDA t : t.boneId = id /\ t.property = prop)

\* C9: for a bone without constraints and drivers, applyAnimation returns
\* for rotation, x and y the interpolated value of the clip's first track
\* for (bone id, property) when that track has keyframes, and the bone's
\* input value otherwise; the value is not normalized.
C9_SamplingOverride ==
    op = "applyAnimation" =>
      \A i \in DOMAIN bones :
        (bones[i].constraints = <<>> /\ bones[i].drivers = <<>>) =>
          \A p \in {"rotation", "x", "y"} :
            LET m == Matching(bones[i].id, p)
            IN  PropOf(animRet[i], p) =
                  IF m # <<>> /\ m[1].keyframes # <<>>
                  THEN getInterpolatedValue(<<m[1]>>, frame)[1]
                  ELSE PropOf(bones[i], p)

\* an unconstrained, undriven b2 was keyed beyond a full turn and returned
\* un-normalized, and b1 kept its y under a track without keyframes
C9_Witness ==
    /\ op = "applyAnimation"
    /\ bones[2].constraints = <<>> /\ bones[2].drivers = <<>>
    /\ bones[1].constraints = <<>> /\ bones[1].drivers = <<>>
    /\ frame = 12
    /\ animRet[2].rotation = Num(400)
    /\ Matching("b1", "y") # <<>>
    /\ animRet[1].y = bones[1].y

\* following parent links from id ends at a root within fuel steps
RECURSIVE EndsAtRoot(_, _, _)
EndsAtRoot(bs, id, fuel) ==
    LET b == Entry(bs, id)
    IN  /\ b # <<>>
        /\ fuel > 0
        /\ (b[1].parentId = NULL \/ EndsAtRoot(bs, b[1].parentId, fuel - 1))

InLimit(lim, v) ==
    (lim.hasMin /\ lim.hasMax /\ lim.min <= lim.max) => (lim.min <= v /\ v <= lim.max)

\* C10 as claimed: every bone of the input with a LIMIT_ROTATION constraint
\* of min <= max comes back from applyAnimation with a rotation in [min, max].
C10_ClampEveryBone ==
    op = "applyAnimation" =>
      \A i \in DOMAIN bones :
        LET lim == FindLimit(bones[i])
        IN  lim # <<>> => InLimit(lim[1], animRet[i].rotation)

\* C10 amended: the same for every bone whose chain of parent links ends at
\* a root bone.
C10_ClampReachable ==
    op = "applyAnimation" =>
      \A i \in DOMAIN bones :
        LET lim == FindLimit(bones[i])
        IN  (lim # <<>> /\ EndsAtRoot(bones, bones[i].id, Len(bones))) =>
              InLimit(lim[1], animRet[i].rotation)

\* a non-root bone limited to [-10, 130] was keyed outside its limit and
\* came back on the bound
C10_Witness ==
    /\ op = "applyAnimation"
    /\ \E i \in DOMAIN bones :
         /\ FindLimit(bones[i]) = <<Limit(-10, 130)>>
         /\ bones[i].parentId # NULL
         /\ EndsAtRoot(bones, bones[i].id, Len(bones))
         /\ Matching(bones[i].id, "rotation") # <<>>
         /\ getInterpolatedValue(<<Matching(bones[i].id, "rotation")[1]>>, frame)
              = <<Num(270)>>
         /\ animRet[i].rotation = Num(-10)

Ids(bs) == [i \in DOMAIN bs |-> bs[i].id]

\* C16: applyAnimation does not patch its input in place: after the call every
\* bone object of the input has the rotation, x and y it had before, with
\* tracks, drivers or constraints in play, and the returned bones have the
\* ids of the input in the same order.
C16_AnimNoPatch ==
    op = "applyAnimation" =>
      /\ DOMAIN bones = DOMAIN before
      /\ \A i \in DOMAIN before : SameTransform(bones[i], before[i])
      /\ Ids(animRet) = Ids(before)

\* a driven bone with a rotation track came back with another rotation than
\* the input holds, and the input still holds its own
C16_Witness ==
    /\ op = "applyAnimation"
    /\ \E i \in DOMAIN before :
         /\ before[i].drivers # <<>>
         /\ Matching(before[i].id, "rotation") # <<>>
         /\ animRet[i].rotation # before[i].rotation
         /\ bones[i].rotation = before[i].rotation
    /\ \E i \in DOMAIN before :
         /\ FindLimit(before[i]) # <<>>
         /\ animRet[i].rotation # before[i].rotation

\* C17: with unique ids calculateFK returns exactly the bones whose chain of
\* parent links ends at a root, each once; a bone whose chain of ancestors
\* hits a dangling id or a cycle is left out, with its subtree.
C17_FKReachableOnly ==
    op = "calculateFK" =>
      /\ \A i \in DOMAIN before :
           EndsAtRoot(before, before[i].id, Len(before))
             <=> Entry(fkRet, before[i].id) # <<>>
      /\ \A j, k \in DOMAIN fkRet : fkRet[j].id = fkRet[k].id => j = k
      /\ \A j \in DOMAIN fkRet : Entry(before, fkRet[j].id) # <<>>

\* b2 hangs on a dangling id and is left out together with its child b3,
\* while the root b1 is returned
C17_Witness ==
    /\ op = "calculateFK"
    /\ before[2].parentId = "zz"
    /\ before[3].parentId = "b2"
    /\ Ids(fkRet) = <<"b1">>

\* bones on a cycle are left out while the root is returned
C17_WitnessCycle ==
    /\ op = "calculateFK"
    /\ before[2].parentId = "b3"
    /\ before[3].parentId = "b2"
    /\ Ids(fkRet) = <<"b1">>

\* the driver's source bone is in the array
HasSource(bs, driver) == Entry(bs, driver.sourceBoneId) # <<>>

\* the rig without the drivers whose source bone does not exist
WithoutDanglingDrivers(bs) ==
    [i \in DOMAIN bs |->
       [bs[i] EXCEPT !.drivers = SelectSeq(bs[i].drivers, LAMBDA d : HasSource(bs, d))]]

\* C18: a driver whose sourceBoneId matches no bone is a no-op.  A bone all
\* of whose drivers dangle keeps its rotation, x and y, and every bone gets
\* the rotation, x and y it gets in the rig without the dangling drivers: the
\* other drivers of the bone and the drivers of other bones still apply.
C18_DanglingDriverNoOp ==
    op = "evaluateDrivers" =>
      /\ \A i \in DOMAIN before :
           (\A k \in DOMAIN before[i].drivers : ~HasSource(before, before[i].drivers[k]))
             => SameTransform(drvRet[i], before[i])
      /\ \A i \in DOMAIN before :
           SameTransform(drvRet[i], evaluateDrivers(WithoutDanglingDrivers(before))[i])

\* b2 owns a driver that applies and a dangling one, b3 a dangling one only:
\* b2 took the driven rotation and kept its x, b3 kept everything, and the
\* driver of b1 applied
C18_Witness ==
    /\ op = "evaluateDrivers"
    /\ calls = 1
    /\ before[2].drivers = <<Driver("rotation", "b1", "rotation", 1, 2, 10),
                             Driver("x", "zz", "x", 1, 1, 0)>>
    /\ before[3].drivers = <<Driver("rotation", "zz", "y", 1, 2, 10)>>
    /\ before[1].drivers = <<Driver("x", "b3", "rotation", -1, 1, 0)>>
    /\ drvRet[2].rotation # before[2].rotation
    /\ drvRet[2].x = before[2].x
    /\ SameTransform(drvRet[3], before[3])
    /\ drvRet[1].x = -before[3].rotation

\* C19: a locked bone that owns a driver targeting rotation has after
\* evaluateDrivers the rotation it had before.
C19_LockedNotDriven ==
    op = "evaluateDrivers" =>
      \A i \in DOMAIN before :
        (/\ before[i].locked
         /\ \E k \in DOMAIN before[i].drivers :
              before[i].drivers[k].driverProperty = "rotation")
          => drvRet[i].rotation = before[i].rotation

----------------------------------------------------------------------------
(* easeInOut on a grid of ratios in [0, 1] *)

MaxDen == 16

EaseGrid == { [n |-> n, d |-> d] : n \in 0..MaxDen, d \in 1..MaxDen }

\* 1 - t
Mirror(t) == [n |-> t.d - t.n, d |-> t.d]

\* easeInOut(t) and easeInOut(1 - t)
CallEaseInOut ==
    /\ easeRet = <<>>
    /\ easeRet' = <<easeInOut(easeArg[1]), easeInOut(Mirror(easeArg[1]))>>
    /\ op' = "easeInOut"
    /\ UNCHANGED <<bones, before, calls, drvRet, fkRet, fkPrev, track, clip, frame,
                   interpRet, animRet, ik, easeArg,
                   interpSite, tl, hist, play>>

InitEase ==
    /\ bones = <<>>
    /\ track = <<>>
    /\ clip = <<>>
    /\ frame = 0
    /\ InitCommon
    /\ InitEditorIdle
    /\ ik = IkIdle
    /\ easeArg \in {<<t>> : t \in {g \in EaseGrid : g.n <= g.d}}
    /\ easeRet = <<>>

NextEase == CallEaseInOut

SpecEase == InitEase /\ [][NextEase]_vars

\* the ratio r is the number p / q
IsRatio(r, p, q) == r.n * q = p * r.d

\* C20: easeInOut(0) = 0, easeInOut(0.25) = 0.125, easeInOut(0.5) = 0.5,
\* easeInOut(1) = 1; at 0.5 the value is also what the lower branch 2 t^2
\* gives, so the two pieces join; and easeInOut(1 - t) = 1 - easeInOut(t) for
\* every t of the grid.
C20_EaseInOutLaw ==
    op = "easeInOut" =>
      LET t == easeArg[1]
          e == easeRet[1]
          m == easeRet[2]
      IN  /\ IsRatio(t, 0, 1) => IsRatio(e, 0, 1)
          /\ IsRatio(t, 1, 4) => IsRatio(e, 1, 8)
          /\ IsRatio(t, 1, 2) => (IsRatio(e, 1, 2) /\ IsRatio(e, 2 * t.n * t.n, t.d * t.d))
          /\ IsRatio(t, 1, 1) => IsRatio(e, 1, 1)
          /\ m.n * e.d = (e.d - e.n) * m.d
          /\ 0 <= e.n /\ e.n <= e.d

\* t = 3/4 was eased to 7/8 and its mirror 1/4 to 1/8
C20_Witness ==
    /\ op = "easeInOut"
    /\ easeArg = <<[n |-> 3, d |-> 4]>>
    /\ IsRatio(easeRet[1], 7, 8)
    /\ IsRatio(easeRet[2], 1, 8)

----------------------------------------------------------------------------
(* solveIK on rigs of six bones *)

IKBoneIds == <<"b1", "b2", "b3", "b4", "b5", "b6">>

\* parentId of b1..b6: a chain of six; a chain of three with a sibling and a
\* second tree; a dangling parent above b2; a cycle b2, b4, b3 beside two
\* trees; a chain of six stored leaf first
IKTopologies ==
    { <<NULL, "b1", "b2", "b3", "b4", "b5">>,
      <<NULL, "b1", "b2", "b2", NULL, "b5">>,
      <<NULL, "zz", "b2", "b3", NULL, "b5">>,
      <<NULL, "b4", "b2", "b3", NULL, "b5">>,
      <<"b2", "b3", "b4", "b5", "b6", NULL>> }

IKRotations ==
    { [i \in 1..6 |-> Num(0)],
      <<Num(30), Num(200), Num(-45), Num(90), Num(0), Num(15)>> }

\* the sets of locked positions
IKLocks == { {}, {5}, {3, 6} }

IKNoLists == [i \in 1..6 |-> <<>>]

IKConstraintConfigs ==
    { IKNoLists,
      [IKNoLists EXCEPT ![5] = <<Limit(-10, 130)>>],
      [IKNoLists EXCEPT ![4] = <<IkPole, Limit(0, 50)>>,
                        ![6] = <<Limit(-10, 130), Limit(0, 50)>>] }

IKDriverConfigs ==
    { IKNoLists,
      [IKNoLists EXCEPT ![5] = <<Driver("rotation", "b1", "rotation", -1, 1, 0)>>] }

IKRigs ==
    { [i \in 1..6 |->
         LET b == Bone(IKBoneIds[i], p[i], Num(3), r[i], Num(0), Num(0), c[i], d[i])
         IN  IF i \in l THEN Locked(b) ELSE b] :
        p \in IKTopologies, r \in IKRotations, l \in IKLocks,
        c \in IKConstraintConfigs, d \in IKDriverConfigs }

\* an existing leaf or inner bone, an id of no bone, the empty id
IKEffectors == {"b6", "b4", "b2", "zz", ""}

\* a target within reach and one out of reach
IKTargets == { [x |-> Num(6), y |-> Num(6)], [x |-> Num(-30), y |-> Num(3)] }

\* lines 110-126: the chain is built and the array copied; the elements of
\* newBones are the caller's objects at every position
SolveIKEnter ==
    /\ ik.pc = "idle"
    /\ \E e \in IKEffectors, t \in IKTargets :
         ik' = [pc |-> "loop", effectorId |-> e, target |-> t,
                chain |-> BuildChain(bones, e, 0), newBones |-> bones,
                shared |-> DOMAIN bones, i |-> 0, k |-> 1, fkCalls |-> 0,
                ret |-> <<>>]
    /\ before' = bones
    /\ op' = "solveIK"
    /\ calls' = calls + 1
    /\ UNCHANGED <<bones, drvRet, fkRet, fkPrev, track, clip, frame, interpRet,
                   animRet, easeArg, easeRet,
                   interpSite, tl, hist, play>>

\* lines 128-162: the loop body for chain[k].  calculateFK writes the driven
\* values into the objects of newBones, those shared with the caller included.
SolveIKBody ==
    /\ ik.pc = "loop"
    /\ ik.i < Iterations
    /\ ik.k <= Len(ik.chain)
    /\ LET step == IKStep(ik.newBones, ik.chain[ik.k], ik.effectorId, ik.target)
       IN  /\ bones' = CallerBones(bones, ik.shared, step.driven)
           /\ ik' = [ik EXCEPT !.newBones = step.newBones,
                               !.shared = @ \ step.hit,
                               !.fkCalls = @ + 1,
                               !.k = @ + 1]
    /\ UNCHANGED <<before, op, calls, drvRet, fkRet, fkPrev, track, clip, frame,
                   interpRet, animRet, easeArg, easeRet,
                   interpSite, tl, hist, play>>

\* line 127: the chain is through, i++
SolveIKNextIteration ==
    /\ ik.pc = "loop"
    /\ ik.i < Iterations
    /\ ik.k > Len(ik.chain)
    /\ ik' = [ik EXCEPT !.i = @ + 1, !.k = 1]
    /\ UNCHANGED <<bones, before, op, calls, drvRet, fkRet, fkPrev, track, clip,
                   frame, interpRet, animRet, easeArg, easeRet,
                   interpSite, tl, hist, play>>

\* line 165: return newBones
SolveIKReturn ==
    /\ ik.pc = "loop"
    /\ ik.i >= Iterations
    /\ ik' = [ik EXCEPT !.pc = "done", !.ret = ik.newBones]
    /\ UNCHANGED <<bones, before, op, calls, drvRet, fkRet, fkPrev, track, clip,
                   frame, interpRet, animRet, easeArg, easeRet,
                   interpSite, tl, hist, play>>

InitIK ==
    /\ bones \in IKRigs
    /\ track = <<>>
    /\ clip = <<>>
    /\ frame = 0
    /\ InitCommon
    /\ InitEditorIdle
    /\ InitIdle

NextIK == SolveIKEnter \/ SolveIKBody \/ SolveIKNextIteration \/ SolveIKReturn

SpecIK == InitIK /\ [][NextIK]_vars

NoDrivers(bs) == \A i \in DOMAIN bs : bs[i].drivers = <<>>

\* the bone id and its ancestors, n bones at most
RECURSIVE Lineage(_, _, _)
Lineage(bs, id, n) ==
    LET b == Entry(bs, id)
    IN  IF n = 0 \/ b = <<>> THEN {}
        ELSE {id} \cup Lineage(bs, b[1].parentId, n - 1)

\* the positions at which the returned rotation is not the input's
Turned == {i \in DOMAIN before : ik.ret[i].rotation # before[i].rotation}

\* C11: in a rig without drivers solveIK returns the input's bones in the
\* input's order, equal to the input in everything but rotation, and the
\* rotation differs on at most 4 bones, all among the effector and its three
\* nearest ancestors.
C11_IKFrame ==
    (ik.pc = "done" /\ NoDrivers(before)) =>
      /\ DOMAIN ik.ret = DOMAIN before
      /\ \A i \in DOMAIN before :
           ik.ret[i] = [before[i] EXCEPT !.rotation = ik.ret[i].rotation]
      /\ \A i \in Turned : before[i].id \in Lineage(before, ik.effectorId, ChainCap)
      /\ Cardinality(Turned) <= ChainCap

\* in the chain of six with effector b6 the four bones b3..b6 were turned and
\* b1 and b2, the two farthest ancestors, were not
C11_Witness ==
    /\ ik.pc = "done"
    /\ NoDrivers(before)
    /\ ik.effectorId = "b6"
    /\ \A i \in 2..6 : before[i].parentId = IKBoneIds[i - 1]
    /\ Turned = {3, 4, 5, 6}

\* in the rig with a sibling and a second tree, the sibling b4 of the
\* effector's chain and the other tree were not turned
C11_WitnessSibling ==
    /\ ik.pc = "done"
    /\ NoDrivers(before)
    /\ ik.effectorId = "b6"
    /\ before[4].parentId = "b2"
    /\ Turned = {5, 6}

\* C12: every locked bone has in the array solveIK returns the rotation it
\* had in the input, for any input.
C12_LockedKept ==
    ik.pc = "done" =>
      \A i \in DOMAIN before : before[i].locked => ik.ret[i].rotation = before[i].rotation

\* C12 on rigs without drivers
C12_LockedKeptUndriven ==
    (ik.pc = "done" /\ NoDrivers(before)) =>
      \A i \in DOMAIN before : before[i].locked => ik.ret[i].rotation = before[i].rotation

\* the positions of the chain bones solveIK has stored a rotation for
Stored == DOMAIN ik.newBones \ ik.shared

\* C13: after each adjustment and in the returned array, every chain bone
\* with a LIMIT_ROTATION constraint of min <= max for which solveIK has
\* stored a rotation holds a rotation within [min, max] in the working array.
C13_IKWithinLimits ==
    ik.pc \in {"loop", "done"} =>
      \A i \in Stored :
        LET lim == FindLimit(ik.newBones[i])
        IN  lim # <<>> => InLimit(lim[1], ik.newBones[i].rotation)

\* C13 on rigs without drivers
C13_IKWithinLimitsUndriven ==
    (ik.pc \in {"loop", "done"} /\ NoDrivers(before)) =>
      \A i \in Stored :
        LET lim == FindLimit(ik.newBones[i])
        IN  lim # <<>> => InLimit(lim[1], ik.newBones[i].rotation)

\* the steps solveIK has yet to take: the rest of the chain and the i++ of
\* this iteration, the iterations after it, and the return
StepsLeft ==
    IF ik.pc = "done" THEN 0
    ELSE IF ik.pc = "idle" THEN Iterations * (ChainCap + 1) + 2
    ELSE IF ik.i >= Iterations THEN 1
    ELSE (Iterations - ik.i - 1) * (Len(ik.chain) + 1) + (Len(ik.chain) + 2 - ik.k) + 1

\* C14: every call of solveIK returns a bone array: a call that has not
\* returned is at a step of the loop or at the return, and every step leaves
\* exactly one step less to take; it returns after exactly 10 outer
\* iterations over a chain of at most 4 ids, with one FK evaluation per
\* iteration and chain id, 40 at most.
C14_IKTerminates ==
    /\ [](ik.pc = "loop" =>
            /\ StepsLeft > 0
            /\ \/ ik.i < Iterations /\ ik.k <= Len(ik.chain)
               \/ ik.i < Iterations /\ ik.k = Len(ik.chain) + 1
               \/ ik.i = Iterations)
    /\ [][ik.pc = "loop" => StepsLeft' = StepsLeft - 1]_vars
    /\ [][StepsLeft' < StepsLeft]_vars
    /\ [](ik.pc = "done" =>
            /\ ik.i = Iterations
            /\ Len(ik.chain) <= ChainCap
            /\ ik.fkCalls = Iterations * Len(ik.chain)
            /\ ik.fkCalls <= Iterations * ChainCap
            /\ DOMAIN ik.ret = DOMAIN before)

\* a call on a cycle of parent links returned after 40 FK evaluations
C14_Witness ==
    /\ ik.pc = "done"
    /\ ik.chain = <<"b4", "b3", "b2", "b4">>
    /\ ik.fkCalls = Iterations * ChainCap
    /\ ik.target = [x |-> Num(-30), y |-> Num(3)]

\* C15: after solveIK has returned, every bone object of the input array has
\* the rotation, x and y it had before the call, in every rig.
C15_IKPure ==
    ik.pc = "done" => \A i \in DOMAIN before : SameTransform(bones[i], before[i])

\* the limit has no bound that could cut a normalized rotation
CutsNothing(lim) ==
    /\ lim.hasMin => lim.min <= Num(-180)
    /\ lim.hasMax => lim.max >= Num(180)

\* C21 as claimed: with no bound cutting, the rotation derived for a limited
\* bone lies in (-180, 180], and raw -180 and -540 yield +180.
C21_NormHalfOpen ==
    op = "calculateFK" =>
      \A k \in DOMAIN fkRet :
        LET d   == fkRet[k]
            raw == Entry(before, d.id)[1].rotation
            lim == FindLimit(d)
        IN  (lim # <<>> /\ CutsNothing(lim[1]) /\ Entry(before, d.id)[1].drivers = <<>>) =>
              /\ Num(-180) < d.rotation /\ d.rotation <= Num(180)
              /\ raw \in {Num(-180), Num(-540)} => d.rotation = Num(180)

\* C21 amended: the rotation lies in the closed interval [-180, 180] and
\* differs from the raw rotation by whole turns; a raw rotation inside
\* [-180, 180] is kept, one above 180 comes down into (-180, 180], one below
\* -180 comes up into [-180, 180): raw -180 and -540 yield -180, 540 yields 180.
C21_NormClosed ==
    op = "calculateFK" =>
      \A k \in DOMAIN fkRet :
        LET d   == fkRet[k]
            raw == Entry(before, d.id)[1].rotation
            lim == FindLimit(d)
        IN  (lim # <<>> /\ CutsNothing(lim[1]) /\ Entry(before, d.id)[1].drivers = <<>>) =>
              /\ Num(-180) <= d.rotation /\ d.rotation <= Num(180)
              /\ (d.rotation - raw) % Num(360) = 0
              /\ (Num(-180) <= raw /\ raw <= Num(180)) => d.rotation = raw
              /\ raw > Num(180) => d.rotation > Num(-180)
              /\ raw < Num(-180) => d.rotation < Num(180)
              /\ raw \in {Num(-180), Num(-540)} => d.rotation = Num(-180)
              /\ raw = Num(540) => d.rotation = Num(180)

\* raw -540 under a limit without bounds was derived as -180
C21_Witness ==
    /\ op = "calculateFK"
    /\ \E k \in DOMAIN fkRet :
         /\ FindLimit(fkRet[k]) = <<LimitUnbounded>>
         /\ Entry(before, fkRet[k].id)[1].rotation = Num(-540)
         /\ fkRet[k].rotation = Num(-180)

\* factor * v + offset as the driver computes it
Driven(driver, v) == (v * driver.factor.num) \div driver.factor.den + driver.offset

\* C22: for distinct bones A without drivers, B with the single driver
\* B.p = A.q * fB + oB and C with the single driver C.r = B.p * fC + oC, at
\* any positions of the array, evaluateDrivers yields B.p = A.q * fB + oB and
\* C.r = (A.q * fB + oB) * fC + oC.
C22_TwoLinkChain ==
    op = "evaluateDrivers" =>
      \A a, b, c \in DOMAIN before :
        LET A  == before[a]
            B  == before[b]
            C  == before[c]
            dB == B.drivers[1]
            dC == C.drivers[1]
        IN  (/\ a # b /\ b # c /\ a # c
             /\ A.drivers = <<>> /\ Len(B.drivers) = 1 /\ Len(C.drivers) = 1
             /\ dB.sourceBoneId = A.id
             /\ dC.sourceBoneId = B.id /\ dC.sourceProperty = dB.driverProperty) =>
              /\ PropOf(drvRet[b], dB.driverProperty)
                   = Driven(dB, PropOf(A, dB.sourceProperty))
              /\ PropOf(drvRet[c], dC.driverProperty)
                   = Driven(dC, Driven(dB, PropOf(A, dB.sourceProperty)))

\* the chain b3 -> b2 -> b1 against the array order: b1's rotation follows
\* b2's driven rotation, which follows b3's y
C22_Witness ==
    /\ op = "evaluateDrivers"
    /\ calls = 1
    /\ before[3].drivers = <<>>
    /\ before[2].drivers = <<Driver("rotation", "b3", "y", 1, 2, 10)>>
    /\ before[1].drivers = <<Driver("x", "b2", "rotation", -1, 1, 0)>>
    /\ drvRet[2].rotation = before[3].y \div 2 + Num(10)
    /\ drvRet[1].x = -(before[3].y \div 2 + Num(10))
    /\ drvRet[1].x # -before[2].rotation

\* one pass in which every driver reads the array as it was at the start of
\* the pass and writes its bone in turn
RECURSIVE SnapshotDrivers(_, _, _, _)
SnapshotDrivers(start, bs, index, k) ==
    IF k > Len(bs[index].drivers) THEN bs
    ELSE LET driver == bs[index].drivers[k]
             src == Entry(start, driver.sourceBoneId)
             out == Driven(driver, PropOf(src[1], driver.sourceProperty))
             p   == driver.driverProperty
             written ==
                 IF src = <<>> THEN bs
                 ELSE IF p = "rotation" THEN [bs EXCEPT ![index].rotation = out]
                 ELSE IF p = "x" THEN [bs EXCEPT ![index].x = out]
                 ELSE IF p = "y" THEN [bs EXCEPT ![index].y = out]
                 ELSE bs
         IN  SnapshotDrivers(start, written, index, k + 1)

RECURSIVE SnapshotPass(_, _, _)
SnapshotPass(start, bs, index) ==
    IF index > Len(bs) THEN bs
    ELSE SnapshotPass(start, SnapshotDrivers(start, bs, index, 1), index + 1)

\* two passes of pass-start reads
PassStartReads(bs) ==
    LET first == SnapshotPass(bs, bs, 1)
    IN  SnapshotPass(first, first, 1)

Orders == {o \in [1..3 -> 1..3] : \A i, j \in 1..3 : o[i] = o[j] => i = j}

Reordered(bs, o) == [i \in DOMAIN bs |-> bs[o[i]]]

\* C24: for a rig without drivers, calculateFK on any reordering of the
\* input array derives for every bone id the entry it derives on the input
\* array: the same rotation, worldStart, worldEnd and worldRotation, or no
\* entry in both.
C24_FKOrderFree ==
    (op = "calculateFK" /\ NoDrivers(before)) =>
      \A o \in Orders :
        LET other == FKResult(evaluateDrivers(Reordered(before, o)))
        IN  /\ Len(other) = Len(fkRet)
            /\ \A i \in DOMAIN before :
                 Entry(other, before[i].id) = Entry(fkRet, before[i].id)

\* a rig stored child first, b1 under b2 and b3 under b2, derived with all
\* three bones, b1 starting at the end of b2
C24_Witness ==
    /\ op = "calculateFK"
    /\ NoDrivers(before)
    /\ before[1].parentId = "b2" /\ before[2].parentId = NULL
    /\ Ids(fkRet) = <<"b2", "b1", "b3">>
    /\ fkRet[2].worldStart = fkRet[1].worldEnd
    /\ fkRet[1].worldEnd # fkRet[1].worldStart
    /\ Ids(FKResult(Reordered(before, <<2, 1, 3>>))) = <<"b2", "b1", "b3">>
    /\ Ids(FKResult(Reordered(before, <<3, 2, 1>>))) = <<"b2", "b3", "b1">>

\* the number of entries of list with the id
Count(list, id) == Cardinality({j \in DOMAIN list : list[j].id = id})

\* C27: the list calculateFK returns is no longer than the input, holds
\* every bone whose parent chain ends at a root exactly once, and holds the
\* entry of a parented bone behind the entry of its parent.
C27_FKPreOrder ==
    op = "calculateFK" =>
      /\ Len(fkRet) <= Len(before)
      /\ \A i \in DOMAIN before :
           EndsAtRoot(before, before[i].id, Len(before)) => Count(fkRet, before[i].id) = 1
      /\ \A k \in DOMAIN fkRet :
           /\ Count(fkRet, fkRet[k].id) = 1
           /\ fkRet[k].parentId # NULL =>
                \E j \in 1..(k - 1) : fkRet[j].id = fkRet[k].parentId

\* stored as b1 under b2, b2 a root, b3 under b2: the list starts with the
\* root b2 although the array starts with its child
C27_Witness ==
    /\ op = "calculateFK"
    /\ before[1].parentId = "b2" /\ before[2].parentId = NULL /\ before[3].parentId = "b2"
    /\ Len(fkRet) = Len(before)
    /\ fkRet[1].id = "b2"
    /\ fkRet[2].parentId = "b2" /\ fkRet[3].parentId = "b2"

\* C26: at the time of any keyframe of a track with pairwise distinct times
\* getInterpolatedValue returns that keyframe's value, whatever the easings
\* and the array order; and on every track, tracks with shared times
\* included, it never divides by zero and never leaves by the last return.
C26_KeyframesHit ==
    op = "getInterpolatedValue" =>
      /\ (HasKeys(track) /\ DistinctTimes(track)) =>
            \A k \in KeysOf(track) : frame = k.time => interpRet = <<k.value>>
      /\ interpSite.ret # "fallback"
      /\ interpSite.ret = "segment" => interpSite.den > 0
      /\ interpSite.ret = "null" <=> interpRet = <<>>

\* the middle keyframe of three, stored last and eased, was hit at its time
\* through the segment it opens
C26_Witness ==
    /\ op = "getInterpolatedValue"
    /\ HasKeys(track) /\ DistinctTimes(track)
    /\ Len(track[1].keyframes) = 3
    /\ track[1].keyframes[3].time = 5
    /\ track[1].keyframes[3].easing = "ease-in-out"
    /\ frame = 5
    /\ interpSite = [ret |-> "segment", den |-> 5]
    /\ interpRet = <<track[1].keyframes[3].value>>

\* two keyframes share the time 5 and the frame lies behind them, in the
\* segment that follows the pair
C26_WitnessShared ==
    /\ op = "getInterpolatedValue"
    /\ HasKeys(track) /\ ~DistinctTimes(track)
    /\ frame = 7
    /\ interpSite = [ret |-> "segment", den |-> 5]

\* C28: in a rig without drivers, when effectorId matches no bone or the
\* effector's chain of parent links does not end at a root, solveIK runs
\* its 10 iterations, one FK evaluation per chain id each, and returns
\* every bone with the rotation, x and y of the input.
C28_IKUnusableEffector ==
    (/\ ik.pc = "done"
     /\ NoDrivers(before)
     /\ ~EndsAtRoot(before, ik.effectorId, Len(before))) =>
      /\ DOMAIN ik.ret = DOMAIN before
      /\ \A i \in DOMAIN before : SameTransform(ik.ret[i], before[i])
      /\ ik.i = Iterations
      /\ ik.fkCalls = Iterations * Len(ik.chain)

\* the effector b4 hangs under a dangling parent id: 40 FK evaluations over
\* the chain b4, b3, b2, zz and nothing turned
C28_Witness ==
    /\ ik.pc = "done"
    /\ NoDrivers(before)
    /\ ik.effectorId = "b4"
    /\ ik.chain = <<"b4", "b3", "b2", "zz">>
    /\ ik.fkCalls = Iterations * ChainCap
    /\ \A i \in DOMAIN before : ~before[i].locked
    /\ ik.ret = before

\* the effector id matches no bone
C28_WitnessMissing ==
    /\ ik.pc = "done"
    /\ NoDrivers(before)
    /\ ik.effectorId = "zz"
    /\ ik.chain = <<"zz">>
    /\ ik.ret = before

----------------------------------------------------------------------------
(* Playback.  Frames count half frames, so that a scrubbed start between two
   frames is a state. *)

OneFrame == 1 + 1

MaxDuration == 4

\* the updater of setCurrentFrame with the loop wrapping to frame 0
NextFrame_LoopWrapsToZero(f, loopRange, duration) ==
    LET next == f + OneFrame
    IN  IF loopRange.enabled
        THEN IF next > loopRange.end THEN 0 ELSE next
        ELSE IF next >= duration THEN 0 ELSE next

\* the updater of setCurrentFrame (utils.ts 528-534)
NextFrame(f, loopRange, duration) ==
    LET next == f + OneFrame
    IN  IF loopRange.enabled
        THEN IF next > loopRange.end THEN loopRange.start ELSE next
        ELSE IF next >= duration THEN 0 ELSE next

\* whole frames 0..MaxDuration + 1
WholeFrames == {OneFrame * n : n \in 0..(MaxDuration + 1)}

LoopRanges ==
    { [enabled |-> e, start |-> a, end |-> b] :
        e \in BOOLEAN, a \in WholeFrames, b \in WholeFrames }

\* one tick of the animation-frame loop whose interval has elapsed
PlaybackTick ==
    /\ play.isPlaying
    /\ play' = [play EXCEPT !.currentFrame = NextFrame(@, play.loopRange, play.duration),
                            !.ticked = TRUE]
    /\ UNCHANGED <<bones, before, op, calls, drvRet, fkRet, fkPrev, track, clip, frame,
                   interpRet, animRet, ik, easeArg, easeRet, interpSite, tl, hist>>

InitPlay ==
    /\ bones = <<>>
    /\ track = <<>>
    /\ clip = <<>>
    /\ frame = 0
    /\ InitCommon
    /\ InitIdle
    /\ interpSite = ""
    /\ tl = <<>>
    /\ hist = <<>>
    /\ play \in { [isPlaying |-> TRUE, currentFrame |-> f, loopRange |-> l,
                    duration |-> d, ticked |-> FALSE] :
                    f \in 0..(OneFrame * (MaxDuration + 1)), l \in LoopRanges,
                    d \in {OneFrame * n : n \in 0..MaxDuration} }

NextPlay == PlaybackTick

\* requestAnimationFrame keeps calling the loop while isPlaying holds
SpecPlay == InitPlay /\ [][NextPlay]_vars /\ WF_vars(PlaybackTick)

InsideLoop(f) == play.loopRange.start <= f /\ f <= play.loopRange.end

\* C30: with the loop range disabled a tick adds one frame or wraps to 0, a
\* frame in [0, duration] stays in [0, duration], and frame 0 comes again
\* and again; with the loop range enabled and start <= end a frame inside
\* [start, end] stays inside, and the tick at end goes to start.
C30_PlaybackWrap ==
    /\ [][~play.loopRange.enabled =>
            \/ play'.currentFrame = play.currentFrame + OneFrame
            \/ play'.currentFrame = 0]_vars
    /\ [][(/\ ~play.loopRange.enabled
           /\ 0 <= play.currentFrame /\ play.currentFrame <= play.duration) =>
            (0 <= play'.currentFrame /\ play'.currentFrame <= play.duration)]_vars
    /\ (~play.loopRange.enabled) => []<>(play.currentFrame = 0)
    /\ [][(/\ play.loopRange.enabled
           /\ play.loopRange.start <= play.loopRange.end
           /\ InsideLoop(play.currentFrame)) =>
            /\ InsideLoop(play'.currentFrame)
            /\ play.currentFrame = play.loopRange.end =>
                 play'.currentFrame = play.loopRange.start]_vars

\* looping over frames 1..3, the frame is back at the start 1
C30_Witness ==
    /\ play # <<>>
    /\ play.ticked
    /\ play.loopRange = [enabled |-> TRUE, start |-> OneFrame, end |-> OneFrame * 3]
    /\ play.currentFrame = OneFrame

\* without loop range and a duration of 4 frames, the frame is at 3, the
\* last frame before the wrap
C30_WitnessPlain ==
    /\ play # <<>>
    /\ play.ticked
    /\ ~play.loopRange.enabled
    /\ play.duration = OneFrame * MaxDuration
    /\ play.currentFrame = OneFrame * (MaxDuration - 1)

----------------------------------------------------------------------------
(* Undo history.  A snapshot is the number of pushes before it; a reader is
   a FileReader whose onload holds the pushHistory of the render that
   started it, with that render's historyIndex. *)

MaxHistory == 4

MaxReaders == 2

Min(a, b) == IF a < b THEN a ELSE b

\* setHistory(prev => [...prev.slice(0, historyIndex + 1), newState]) with
\* the historyIndex the callback captured, and setHistoryIndex(prev => prev + 1)
pushHistory(h, captured) ==
    [h EXCEPT !.history = SubSeq(@, 1, Min(Len(@), captured + 1)) \o <<h.pushes>>,
              !.historyIndex = @ + 1,
              !.pushes = @ + 1]

\* useEffect(() => { if (history.length === 0) pushHistory(); }, [])
HistoryMount ==
    /\ ~hist.mounted
    /\ hist' = [pushHistory(hist, hist.historyIndex) EXCEPT !.mounted = TRUE]
    /\ UNCHANGED <<bones, before, op, calls, drvRet, fkRet, fkPrev, track, clip, frame,
                   interpRet, animRet, ik, easeArg, easeRet, interpSite, tl, play>>

\* a handler of the current render calls pushHistory (addKeyframe,
\* updateClip, handleDeleteSelection)
HandlerPushHistory ==
    /\ hist.mounted
    /\ hist.pushes < MaxHistory
    /\ hist' = pushHistory(hist, hist.historyIndex)
    /\ UNCHANGED <<bones, before, op, calls, drvRet, fkRet, fkPrev, track, clip, frame,
                   interpRet, animRet, ik, easeArg, easeRet, interpSite, tl, play>>

\* handleImportSprite: reader.onload is set and the file is being read
ImportSprite ==
    /\ hist.mounted
    /\ Len(hist.readers) < MaxReaders
    /\ hist' = [hist EXCEPT !.readers = Append(@, hist.historyIndex)]
    /\ UNCHANGED <<bones, before, op, calls, drvRet, fkRet, fkPrev, track, clip, frame,
                   interpRet, animRet, ik, easeArg, easeRet, interpSite, tl, play>>

\* reader.onload: attachSpriteToBone calls the pushHistory it captured
ReaderLoaded ==
    /\ hist.mounted
    /\ hist.pushes < MaxHistory
    /\ \E r \in DOMAIN hist.readers :
         hist' = [pushHistory(hist, hist.readers[r]) EXCEPT
                    !.readers = SubSeq(hist.readers, 1, r - 1)
                                \o SubSeq(hist.readers, r + 1, Len(hist.readers))]
    /\ UNCHANGED <<bones, before, op, calls, drvRet, fkRet, fkPrev, track, clip, frame,
                   interpRet, animRet, ik, easeArg, easeRet, interpSite, tl, play>>

\* handleUndo: s = history[historyIndex - 1]; s.bones throws on a missing s
handleUndo ==
    /\ hist.mounted
    /\ hist.historyIndex > 0
    \* history[historyIndex - 1] counts from 0, a sequence from 1
    /\ hist' = IF hist.historyIndex \in DOMAIN hist.history
               THEN [hist EXCEPT !.historyIndex = @ - 1]
               ELSE [hist EXCEPT !.threw = TRUE]
    /\ UNCHANGED <<bones, before, op, calls, drvRet, fkRet, fkPrev, track, clip, frame,
                   interpRet, animRet, ik, easeArg, easeRet, interpSite, tl, play>>

\* handleRedo
handleRedo ==
    /\ hist.mounted
    /\ hist.historyIndex < Len(hist.history) - 1
    /\ hist' = [hist EXCEPT !.historyIndex = @ + 1]
    /\ UNCHANGED <<bones, before, op, calls, drvRet, fkRet, fkPrev, track, clip, frame,
                   interpRet, animRet, ik, easeArg, easeRet, interpSite, tl, play>>

InitHist ==
    /\ bones = <<>>
    /\ track = <<>>
    /\ clip = <<>>
    /\ frame = 0
    /\ InitCommon
    /\ InitIdle
    /\ interpSite = ""
    /\ tl = <<>>
    /\ play = <<>>
    /\ hist = [history |-> <<>>, historyIndex |-> -1, pushes |-> 0, readers |-> <<>>,
               mounted |-> FALSE, threw |-> FALSE]

NextHist ==
    \/ HistoryMount
    \/ HandlerPushHistory
    \/ ImportSprite
    \/ ReaderLoaded
    \/ handleUndo
    \/ handleRedo

SpecHist == InitHist /\ [][NextHist]_vars

\* C29: once the initial snapshot is taken, historyIndex is an index into
\* history (counted from 0) under every interleaving of pushHistory calls,
\* file-reader completions, undo and redo, and no undo or redo reads a
\* missing snapshot.
C29_HistoryIndexValid ==
    (hist # <<>> /\ hist.mounted) =>
      /\ 0 <= hist.historyIndex
      /\ hist.historyIndex < Len(hist.history)
      /\ ~hist.threw

----------------------------------------------------------------------------
(* Keyframe editing.  One track of the clip; a keyframe is its time, in
   whole frames.  component names the Timeline in use: "dragState" is the
   one with a selection and the KEY_MOVE drag, "draggingKey" the one that
   drags a single key. *)

MaxTime == 3

MaxTrackKeys == 3

Max(a, b) == IF a > b THEN a ELSE b

\* t.keyframes = t.keyframes.filter(k => k.time !== currentFrame);
\* t.keyframes.push({ time: currentFrame, ... })
InsertKey(keyframes, time) ==
    LET Kept(k) == k # time
    IN  SelectSeq(keyframes, Kept) \o <<time>>

\* keyframes.findIndex(k => Math.abs(k.time - frame) < tolerance) on whole
\* frames; 0 stands for the -1 of no match
FindKeyAt(keyframes, time) ==
    IF \E i \in DOMAIN keyframes : keyframes[i] = time
    THEN CHOOSE i \in DOMAIN keyframes :
           /\ keyframes[i] = time
           /\ \A j \in DOMAIN keyframes : keyframes[j] = time => i <= j
    ELSE 0

IsSelected(selection, keyIndex) ==
    \E s \in DOMAIN selection : selection[s] = keyIndex

\* dragState.initialKeys.forEach(init => ...) of handleWindowMove: the keys
\* are written in place, one after the other
RECURSIVE MoveKeys(_, _, _, _)
MoveKeys(keyframes, initialKeys, selection, dtFrames) ==
    IF initialKeys = <<>> THEN keyframes
    ELSE LET init == Head(initialKeys)
             newTime == Max(0, init.time + dtFrames)
             collision == \E i \in DOMAIN keyframes :
                            /\ i # init.keyIndex
                            /\ keyframes[i] = newTime
                            /\ ~IsSelected(selection, i)
         IN  MoveKeys(
               IF collision THEN keyframes
               ELSE [keyframes EXCEPT ![init.keyIndex] = newTime],
               Tail(initialKeys), selection, dtFrames)

NoDrag == tl.dragState = <<>> /\ tl.draggingKey = <<>>

\* App.addKeyframe on the track of the selected bone
addKeyframe ==
    /\ NoDrag
    /\ Len(InsertKey(tl.keyframes, tl.currentFrame)) <= MaxTrackKeys
    /\ tl' = [tl EXCEPT !.keyframes = InsertKey(@, tl.currentFrame)]
    /\ UNCHANGED <<bones, before, op, calls, drvRet, fkRet, fkPrev, track, clip, frame,
                   interpRet, animRet, ik, easeArg, easeRet, interpSite, hist, play>>

\* App.updateBone with autoKey on and playback stopped
updateBoneAutoKey ==
    /\ NoDrag
    /\ tl.autoKey
    /\ Len(InsertKey(tl.keyframes, tl.currentFrame)) <= MaxTrackKeys
    /\ tl' = [tl EXCEPT !.keyframes = InsertKey(@, tl.currentFrame)]
    /\ UNCHANGED <<bones, before, op, calls, drvRet, fkRet, fkPrev, track, clip, frame,
                   interpRet, animRet, ik, easeArg, easeRet, interpSite, hist, play>>

toggleAutoKey ==
    /\ NoDrag
    /\ tl' = [tl EXCEPT !.autoKey = ~@]
    /\ UNCHANGED <<bones, before, op, calls, drvRet, fkRet, fkPrev, track, clip, frame,
                   interpRet, animRet, ik, easeArg, easeRet, interpSite, hist, play>>

\* setCurrentFrame from the header of the timeline, on a whole frame
Scrub ==
    /\ NoDrag
    /\ tl.component = "dragState"
    /\ \E f \in 0..MaxTime : tl' = [tl EXCEPT !.currentFrame = f]
    /\ UNCHANGED <<bones, before, op, calls, drvRet, fkRet, fkPrev, track, clip, frame,
                   interpRet, animRet, ik, easeArg, easeRet, interpSite, hist, play>>

\* handleMouseDown on the row of the track: a key or empty space
TimelineMouseDown ==
    /\ NoDrag
    /\ tl.component = "dragState"
    /\ \E f \in 0..MaxTime, ctrlKey \in BOOLEAN :
         LET keyIndex == FindKeyAt(tl.keyframes, f)
             isSelected == IsSelected(tl.selection, keyIndex)
             Others(s) == s # keyIndex
             newSel == IF ctrlKey
                       THEN IF isSelected THEN SelectSeq(tl.selection, Others)
                            ELSE Append(tl.selection, keyIndex)
                       ELSE IF isSelected THEN tl.selection ELSE <<keyIndex>>
             \* keyframes[s.keyIndex].time throws on an index the track
             \* no longer has, after setSelection and before setDragState
             throws == \E s \in DOMAIN newSel : newSel[s] \notin DOMAIN tl.keyframes
             initialKeys == [s \in DOMAIN newSel |->
                               [keyIndex |-> newSel[s], time |-> tl.keyframes[newSel[s]]]]
         IN  IF keyIndex # 0
             THEN IF throws
                  THEN tl' = [tl EXCEPT !.selection = newSel]
                  ELSE tl' = [tl EXCEPT !.selection = newSel,
                                        !.dragState = <<[type |-> "KEY_MOVE",
                                                         initialKeys |-> initialKeys]>>]
             ELSE tl' = [tl EXCEPT !.selection = IF ctrlKey THEN @ ELSE <<>>,
                                   !.dragState = <<[type |-> "BOX_SELECT",
                                                    initialKeys |-> <<>>]>>]
    /\ UNCHANGED <<bones, before, op, calls, drvRet, fkRet, fkPrev, track, clip, frame,
                   interpRet, animRet, ik, easeArg, easeRet, interpSite, hist, play>>

\* handleWindowMove while a KEY_MOVE drag is active
TimelineWindowMove ==
    /\ tl.dragState # <<>>
    /\ tl.dragState[1].type = "KEY_MOVE"
    /\ \E dtFrames \in (0 - MaxTime)..MaxTime :
         /\ dtFrames # 0
         /\ \A k \in DOMAIN tl.dragState[1].initialKeys :
              tl.dragState[1].initialKeys[k].time + dtFrames <= MaxTime
         /\ tl' = [tl EXCEPT !.keyframes = MoveKeys(@, tl.dragState[1].initialKeys,
                                                    tl.selection, dtFrames)]
    /\ UNCHANGED <<bones, before, op, calls, drvRet, fkRet, fkPrev, track, clip, frame,
                   interpRet, animRet, ik, easeArg, easeRet, interpSite, hist, play>>

\* handleWindowUp: a box selection without ctrl selects the keys in the
\* box; every drag ends
TimelineWindowUp ==
    /\ tl.dragState # <<>>
    /\ IF tl.dragState[1].type = "BOX_SELECT"
       THEN \E startFrame \in 0..MaxTime, endFrame \in 0..MaxTime :
              LET InBox(i) == tl.keyframes[i] >= startFrame /\ tl.keyframes[i] <= endFrame
                  indices == [i \in DOMAIN tl.keyframes |-> i]
              IN  tl' = [tl EXCEPT !.selection = SelectSeq(indices, InBox),
                                   !.dragState = <<>>]
       ELSE tl' = [tl EXCEPT !.dragState = <<>>]
    /\ UNCHANGED <<bones, before, op, calls, drvRet, fkRet, fkPrev, track, clip, frame,
                   interpRet, animRet, ik, easeArg, easeRet, interpSite, hist, play>>

\* handleMouseDown of the single-key Timeline
SingleKeyMouseDown ==
    /\ NoDrag
    /\ tl.component = "draggingKey"
    /\ \E f \in 0..MaxTime :
         LET keyIndex == FindKeyAt(tl.keyframes, f)
         IN  IF keyIndex # 0
             THEN tl' = [tl EXCEPT !.draggingKey = <<keyIndex>>]
             ELSE tl' = [tl EXCEPT !.currentFrame = f]
    /\ UNCHANGED <<bones, before, op, calls, drvRet, fkRet, fkPrev, track, clip, frame,
                   interpRet, animRet, ik, easeArg, easeRet, interpSite, hist, play>>

\* handleMouseMove of the single-key Timeline
SingleKeyMouseMove ==
    /\ tl.draggingKey # <<>>
    /\ \E f \in 0..MaxTime :
         LET keyIndex == tl.draggingKey[1]
             taken == \E i \in DOMAIN tl.keyframes :
                        i # keyIndex /\ tl.keyframes[i] = f
         IN  tl' = IF taken THEN tl
                   ELSE [tl EXCEPT !.keyframes[keyIndex] = f]
    /\ UNCHANGED <<bones, before, op, calls, drvRet, fkRet, fkPrev, track, clip, frame,
                   interpRet, animRet, ik, easeArg, easeRet, interpSite, hist, play>>

\* handleMouseUp of the single-key Timeline
SingleKeyMouseUp ==
    /\ tl.draggingKey # <<>>
    /\ tl' = [tl EXCEPT !.draggingKey = <<>>]
    /\ UNCHANGED <<bones, before, op, calls, drvRet, fkRet, fkPrev, track, clip, frame,
                   interpRet, animRet, ik, easeArg, easeRet, interpSite, hist, play>>

UniqueTimes(keyframes) ==
    \A i \in DOMAIN keyframes : \A j \in DOMAIN keyframes :
      i # j => keyframes[i] # keyframes[j]

\* the tracks a clip can start with: up to two keys at different times
InitialTracks ==
    {<<>>} \cup {<<a>> : a \in 0..MaxTime}
           \cup {k \in {<<a, b>> : a \in 0..MaxTime, b \in 0..MaxTime} : k[1] # k[2]}

InitTimeline ==
    /\ bones = <<>>
    /\ track = <<>>
    /\ clip = <<>>
    /\ frame = 0
    /\ InitCommon
    /\ InitIdle
    /\ interpSite = ""
    /\ hist = <<>>
    /\ play = <<>>
    /\ tl \in {[component |-> c, keyframes |-> k, selection |-> <<>>,
                dragState |-> <<>>, draggingKey |-> <<>>, currentFrame |-> 0,
                autoKey |-> FALSE] :
                 c \in {"dragState", "draggingKey"}, k \in InitialTracks}

NextTimeline ==
    \/ addKeyframe
    \/ updateBoneAutoKey
    \/ toggleAutoKey
    \/ Scrub
    \/ TimelineMouseDown
    \/ TimelineWindowMove
    \/ TimelineWindowUp
    \/ SingleKeyMouseDown
    \/ SingleKeyMouseMove
    \/ SingleKeyMouseUp

SpecTimeline == InitTimeline /\ [][NextTimeline]_vars

\* C25: starting from a track whose keyframes have different times, after
\* any sequence of addKeyframe, auto-key insertions, single-key drags and
\* KEY_MOVE drags of a selection (drags clamped at frame 0 included), no two
\* keyframes of the track have the same time.
C25_KeyTimesUnique ==
    tl # <<>> => UniqueTimes(tl.keyframes)

====
